---------------------------- MODULE Spec2Model ----------------------------
(***************************************************************************)
(* A model of the groovescope backend's two engines:                       *)
(*   - the conversion job monitor of src/services/youtubeService.js        *)
(*     (monitorConversionProgress over an event stream, waitForConversion  *)
(*     by polling), and                                                    *)
(*   - the waveform extraction engine of src/unnamed/part_000              *)
(*     (AudioProcessor: generatePeaks, simulatePeaksExtraction,            *)
(*     extractRealAmplitudes, smoothPeaks, generateRealisticPeaks).        *)
(* Each engine has its own specification (SpecMonitor, SpecPoll, ...), so  *)
(* that the engines' state spaces do not multiply.  Times are integers in  *)
(* milliseconds.  Amplitudes, which are floating point in the source, are  *)
(* fixed point here: an integer v stands for v / SCALE; resamplePeaks and  *)
(* smoothPeaks, whose results turn on the rounding of single operations,   *)
(* are also modelled on exact binary64 numbers.                            *)
(***************************************************************************)
EXTENDS Integers, Sequences, FiniteSets, TLC

VARIABLES mon,      \* one monitorConversionProgress call (event stream)
          poll,     \* one waitForConversion call (polling)
          proc,     \* the fields of the one AudioProcessor instance
          gp,       \* one generatePeaks call (download, temp file, extraction)
          sim,      \* one direct simulatePeaksExtraction call
          gen,      \* the generateRealisticPeaks calls made so far
          conc,     \* generatePeaks calls running interleaved, and the temp dir
          bg,       \* one processVideoInBackground call
          start,    \* one startConversion call and the route that made it
          util      \* one call of a sequence helper of the AudioProcessor

vars == <<mon, poll, proc, gp, sim, gen, conc, bg, start, util>>

Min(a, b) == IF a < b THEN a ELSE b
Max(a, b) == IF a > b THEN a ELSE b

-----------------------------------------------------------------------------
(***************************************************************************)
(* Bounds of the model.                                                    *)
(***************************************************************************)
\* the number of events the stream delivers to one monitor
MaxEvents == 3
\* the largest attempt limit tried besides the two the code uses (20, 30)
MaxSmallAttempts == 3

-----------------------------------------------------------------------------
(***************************************************************************)
(* monitorConversionProgress (youtubeService.js 332-380)                   *)
(***************************************************************************)
\* setTimeout(..., 300000) at youtubeService.js:345
MONITOR_TIMEOUT_MS == 300000

\* the steps by which the model's clock advances while the monitor waits
ClockSteps == {100000, 150000}

NoUrl == "<none>"
NoMsg == "<none>"
Urls == {"u1", "u2"}
MSG_SSE_TIMEOUT == "Conversion timeout: Process took too long"
MSG_SSE_DEFAULT == "Conversion failed"
MSG_SSE_CONNECTION == "SSE connection failed"
MSG_POLL_EXHAUSTED == "Conversion timeout: Video took too long to process"

\* what an upstream event may carry as its message
UpstreamMessages == {"quota", MSG_POLL_EXHAUSTED}

\* The payload of one message event.  parse is what JSON.parse(event.data)
\* does with it: "bad" throws, "null" yields null, "ok" yields an object
\* with the fields below (an absent field is NoUrl / NoMsg, both falsy).
Events ==
    [parse : {"bad", "null"}, status : {"-"}, downloadUrl : {NoUrl}, message : {NoMsg}]
    \cup
    [parse : {"ok"},
     status : {"processing", "completed", "error", "failed"},
     downloadUrl : Urls \cup {NoUrl},
     message : UpstreamMessages \cup {NoMsg}]

\* progressCallback: not supplied, returns, throws, or returns a promise
\* that rejects (as an async function does when its body throws)
Callbacks == {"none", "returns", "throws", "rejects"}

\* the first terminal signal of the channel, in arrival order (history)
NoSignal == [kind |-> "none", val |-> "-"]

\* The same call made with no progressCallback and fed the same events,
\* errors and timer: what the monitor does when no callback is involved.
MonRef ==
    [pc |-> "idle", cb |-> "none", promise |-> "pending", value |-> "-",
     esOpen |-> FALSE, timerArmed |-> FALSE, cbCalls |-> 0, unhandled |-> FALSE]

\* events, units, malformed, bare, lateCalls, cancelled and first are
\* history: the events delivered, those of them that parsed, the malformed
\* ones that came before any terminal signal, those of the malformed that
\* were 'completed' without a downloadUrl, the callback invocations made
\* after the promise had settled, whether the caller has given up the wait,
\* and the first terminal signal.
MonIdle ==
    [pc |-> "idle", cb |-> "none", promise |-> "pending", value |-> "-",
     esOpen |-> FALSE, timerArmed |-> FALSE, now |-> 0, events |-> 0,
     cbCalls |-> 0, unhandled |-> FALSE, subscriptions |-> 0,
     first |-> NoSignal, units |-> 0, malformed |-> 0, bare |-> 0, lateCalls |-> 0,
     cancelled |-> FALSE, ref |-> MonRef]

\* resolve()/reject() of a promise: only the first call settles it
Settle(m, how, v) ==
    IF m.promise = "pending" THEN [m EXCEPT !.promise = how, !.value = v] ELSE m

\* remember the first terminal signal that arrived
Signal(m, kind, v) ==
    IF m.first.kind = "none" THEN [m EXCEPT !.first = [kind |-> kind, val |-> v]] ELSE m

IsComplete(e) == e.parse = "ok" /\ e.status = "completed" /\ e.downloadUrl # NoUrl
IsFailure(e)  == e.parse = "ok" /\ e.status \in {"error", "failed"}
\* a payload that does not parse, or parses to a value without the fields
\* the handler reads (null, or 'completed' with no downloadUrl)
IsMalformed(e) ==
    \/ e.parse # "ok"
    \/ e.status = "completed" /\ e.downloadUrl = NoUrl
FailureMessage(e) == IF e.message # NoMsg THEN e.message ELSE MSG_SSE_DEFAULT

\* the terminal branches of onmessage, lines 357-366
OnMessageClearsTimer(m, e) ==
    IF IsComplete(e)
    THEN Settle([m EXCEPT !.timerArmed = FALSE, !.esOpen = FALSE],
                "resolved", e.downloadUrl)
    ELSE IF IsFailure(e)
    THEN Settle([m EXCEPT !.timerArmed = FALSE, !.esOpen = FALSE],
                "rejected", FailureMessage(e))
    ELSE [m EXCEPT !.timerArmed = FALSE]
OnMessageTerminal(m, e) ==
    IF IsComplete(e)
    THEN Settle([m EXCEPT !.timerArmed = FALSE, !.esOpen = FALSE],
                "resolved", e.downloadUrl)
    ELSE IF IsFailure(e)
    THEN Settle([m EXCEPT !.timerArmed = FALSE, !.esOpen = FALSE],
                "rejected", FailureMessage(e))
    ELSE m

\* eventSource.onmessage, lines 347-371: everything runs inside one try
\* block, whose catch only logs.
OnMessageBody(m, e) ==
    IF e.parse = "bad"
    THEN m                                      \* JSON.parse throws
    ELSE LET called == IF m.cb = "none" THEN m
                       ELSE [m EXCEPT !.cbCalls = @ + 1,
                                      !.unhandled = @ \/ (m.cb = "rejects")]
         IN  IF m.cb = "throws"
             THEN called                        \* the callback's throw is caught
             ELSE IF e.parse = "null"
             THEN called                        \* data.status throws a TypeError
             ELSE OnMessageTerminal(called, e)

\* the call itself, lines 333-345: subscribe and arm the timer
SubscribeBody(m, cb) ==
    [m EXCEPT !.pc = "subscribed", !.cb = cb, !.esOpen = TRUE,
              !.timerArmed = TRUE, !.subscriptions = @ + 1,
              !.ref = [@ EXCEPT !.pc = "subscribed", !.esOpen = TRUE,
                                !.timerArmed = TRUE]]

monitorConversionProgress(cb) ==
    /\ mon.pc = "idle"
    /\ mon' = SubscribeBody(mon, cb)
    /\ UNCHANGED <<poll, proc, gp, sim, gen, conc, bg, start, util>>

\* a message event is delivered to onmessage
OnMessage(e) ==
    /\ mon.pc = "subscribed"
    /\ mon.esOpen
    /\ mon.events < MaxEvents
    /\ LET arrived == [mon EXCEPT
                          !.events = @ + 1,
                          !.units = IF e.parse # "bad" THEN @ + 1 ELSE @,
                          !.malformed = IF IsMalformed(e) /\ mon.first.kind = "none"
                                        THEN @ + 1 ELSE @,
                          !.bare = IF e.parse = "ok" /\ e.status = "completed"
                                      /\ e.downloadUrl = NoUrl /\ mon.first.kind = "none"
                                   THEN @ + 1 ELSE @,
                          !.lateCalls = IF e.parse # "bad" /\ mon.cb # "none"
                                           /\ mon.promise # "pending"
                                        THEN @ + 1 ELSE @,
                          !.ref = IF @.esOpen THEN OnMessageBody(@, e) ELSE @]
           noted == IF IsComplete(e) THEN Signal(arrived, "complete", e.downloadUrl)
                    ELSE IF IsFailure(e) THEN Signal(arrived, "failure", FailureMessage(e))
                    ELSE arrived
       IN  mon' = OnMessageBody(noted, e)
    /\ UNCHANGED <<poll, proc, gp, sim, gen, conc, bg, start, util>>

\* onerror without its eventSource.close(): the stream stays open and the
\* event source reconnects by itself
OnErrorKeepsStream(m) ==
    Settle([m EXCEPT !.timerArmed = FALSE], "rejected", MSG_SSE_CONNECTION)

\* eventSource.onerror, lines 373-378
OnErrorBody(m) ==
    Settle([m EXCEPT !.timerArmed = FALSE, !.esOpen = FALSE],
           "rejected", MSG_SSE_CONNECTION)

OnError ==
    /\ mon.pc = "subscribed"
    /\ mon.esOpen
    /\ mon' = OnErrorBody(Signal([mon EXCEPT !.ref = IF @.esOpen THEN OnErrorBody(@) ELSE @],
                                  "connerror", MSG_SSE_CONNECTION))
    /\ UNCHANGED <<poll, proc, gp, sim, gen, conc, bg, start, util>>

\* the timer's callback without its eventSource.close()
OnTimeoutKeepsStream(m) ==
    Settle([m EXCEPT !.timerArmed = FALSE], "rejected", MSG_SSE_TIMEOUT)

\* the timer's callback, lines 342-345
OnTimeoutBody(m) ==
    Settle([m EXCEPT !.timerArmed = FALSE, !.esOpen = FALSE],
           "rejected", MSG_SSE_TIMEOUT)

OnTimeout ==
    /\ mon.pc = "subscribed"
    /\ mon.timerArmed
    /\ mon.now >= MONITOR_TIMEOUT_MS
    /\ mon' = OnTimeoutBody(Signal([mon EXCEPT !.ref = IF @.timerArmed THEN OnTimeoutBody(@) ELSE @],
                                    "timeout", MSG_SSE_TIMEOUT))
    /\ UNCHANGED <<poll, proc, gp, sim, gen, conc, bg, start, util>>

\* time passes while the monitor waits, up to the moment the armed timer is
\* due: its callback runs before more time passes
MonTick(d) ==
    /\ mon.pc = "subscribed"
    /\ mon.timerArmed
    /\ mon.now < MONITOR_TIMEOUT_MS
    /\ mon' = [mon EXCEPT !.now = Min(@ + d, MONITOR_TIMEOUT_MS)]
    /\ UNCHANGED <<poll, proc, gp, sim, gen, conc, bg, start, util>>

\* The caller gives up the wait.  monitorConversionProgress takes no
\* cancellation signal and returns a bare promise (lines 332-333): nothing
\* of the caller's decision reaches the event source or the timer.
CancelMonitor ==
    /\ mon.pc = "subscribed"
    /\ mon.promise = "pending"
    /\ ~mon.cancelled
    /\ mon' = [mon EXCEPT !.cancelled = TRUE]
    /\ UNCHANGED <<poll, proc, gp, sim, gen, conc, bg, start, util>>

MonitorNext ==
    \/ \E cb \in Callbacks : monitorConversionProgress(cb)
    \/ \E e \in Events : OnMessage(e)
    \/ OnError
    \/ OnTimeout
    \/ \E d \in ClockSteps : MonTick(d)
    \/ CancelMonitor

-----------------------------------------------------------------------------
(***************************************************************************)
(* waitForConversion (youtubeService.js 388-416)                           *)
(***************************************************************************)
\* maxAttempts = 30 at youtubeService.js:388
DEFAULT_MAX_ATTEMPTS == 30
\* the attempt limit processVideoInBackground passes, audio.js:387
BACKGROUND_MAX_ATTEMPTS == 20
\* axios.head(downloadUrl, { timeout: 10000 }) at youtubeService.js:395
PROBE_TIMEOUT_MS == 10000
\* Math.min(5000, 1000 * attempt) at youtubeService.js:406
BACKOFF_CAP_MS == 5000
BACKOFF_BASE_MS == 1000

AttemptLimits == (0 .. MaxSmallAttempts) \cup {BACKGROUND_MAX_ATTEMPTS, DEFAULT_MAX_ATTEMPTS}

\* What one HEAD probe does: "ok200" resolves with status 200; "ok2xx"
\* resolves with another 2xx status (axios resolves every 2xx); "http"
\* rejects with an error status; "transport" rejects before any answer;
\* "timeout" rejects when the probe's own timeout elapses.
ProbeOutcomes == {"ok200", "ok2xx", "http", "transport", "timeout"}
Throws(o) == o \in {"http", "transport", "timeout"}
ProbeDuration(o) == IF o = "timeout" THEN PROBE_TIMEOUT_MS ELSE 0

\* WaitTime without its cap: the wait grows with the attempt number unbounded
WaitTimeUncapped(attempt) == BACKOFF_BASE_MS * attempt

\* const waitTime = Math.min(5000, 1000 * attempt), line 406
WaitTime(attempt) == Min(BACKOFF_CAP_MS, BACKOFF_BASE_MS * attempt)

\* cbCalls counts the invocations of a caller's observer: the function has
\* no observer parameter (line 388) and no step of it changes the count.
\* cancelled is history: the caller has given up the wait; so is last, what
\* the latest probe did.
PollIdle ==
    [pc |-> "idle", maxAttempts |-> 0, attempt |-> 0, probes |-> 0, now |-> 0,
     waited |-> 0, lastGap |-> 0, allThrew |-> TRUE, last |-> "none",
     result |-> "none", value |-> "-", cbCalls |-> 0, cancelled |-> FALSE]

\* leaving the loop, lines 414-415
Exhausted(p) ==
    [p EXCEPT !.pc = "done", !.result = "threw", !.value = MSG_POLL_EXHAUSTED]

\* the loop's increment and test, line 390
NextAttempt(p) ==
    LET q == [p EXCEPT !.attempt = @ + 1]
    IN  IF q.attempt <= q.maxAttempts THEN [q EXCEPT !.pc = "probing"] ELSE Exhausted(q)

\* the call: the loop starts at attempt 1
waitForConversion(maxAttempts) ==
    /\ poll.pc = "idle"
    /\ poll' = NextAttempt([poll EXCEPT !.maxAttempts = maxAttempts])
    /\ UNCHANGED <<mon, proc, gp, sim, gen, conc, bg, start, util>>

\* ProbeBody with a catch block that gives up on an error answer
ProbeBodyFailsFast(p, o) ==
    LET q == [p EXCEPT !.probes = @ + 1, !.now = @ + ProbeDuration(o), !.last = o]
    IN  IF o = "ok200"
        THEN [q EXCEPT !.pc = "done", !.result = "returned", !.value = "downloadUrl"]
        ELSE IF ~Throws(o)
        THEN NextAttempt([q EXCEPT !.lastGap = 0, !.allThrew = FALSE])
        ELSE IF o = "http"
        THEN [q EXCEPT !.pc = "done", !.result = "threw", !.value = "Request failed"]
        ELSE IF q.attempt < q.maxAttempts
        THEN [q EXCEPT !.pc = "sleeping"]
        ELSE NextAttempt(q)

\* ProbeBody with a back-off wait after a successful probe too
ProbeBodySleepsOnSuccess(p, o) ==
    LET q == [p EXCEPT !.probes = @ + 1, !.now = @ + ProbeDuration(o), !.last = o]
    IN  IF o = "ok200"
        THEN [q EXCEPT !.pc = "done", !.result = "returned", !.value = "downloadUrl",
                       !.now = @ + WaitTime(q.attempt),
                       !.waited = @ + WaitTime(q.attempt)]
        ELSE IF ~Throws(o)
        THEN NextAttempt([q EXCEPT !.lastGap = 0, !.allThrew = FALSE])
        ELSE IF q.attempt < q.maxAttempts
        THEN [q EXCEPT !.pc = "sleeping"]
        ELSE NextAttempt(q)

\* ProbeBody with a back-off wait after the last probe as well
ProbeBodySleepsAfterLast(p, o) ==
    LET q == [p EXCEPT !.probes = @ + 1, !.now = @ + ProbeDuration(o), !.last = o]
    IN  IF o = "ok200"
        THEN [q EXCEPT !.pc = "done", !.result = "returned", !.value = "downloadUrl"]
        ELSE IF ~Throws(o)
        THEN NextAttempt([q EXCEPT !.lastGap = 0, !.allThrew = FALSE])
        ELSE [q EXCEPT !.pc = "sleeping"]

\* one probe, lines 391-411, up to the back-off wait
ProbeBody(p, o) ==
    LET q == [p EXCEPT !.probes = @ + 1, !.now = @ + ProbeDuration(o), !.last = o]
    IN  IF o = "ok200"
        THEN [q EXCEPT !.pc = "done", !.result = "returned", !.value = "downloadUrl"]
        ELSE IF ~Throws(o)
        THEN NextAttempt([q EXCEPT !.lastGap = 0, !.allThrew = FALSE])
        ELSE IF q.attempt < q.maxAttempts
        THEN [q EXCEPT !.pc = "sleeping"]
        ELSE NextAttempt(q)

Probe(o) ==
    /\ poll.pc = "probing"
    /\ poll' = ProbeBody(poll, o)
    /\ UNCHANGED <<mon, proc, gp, sim, gen, conc, bg, start, util>>

\* the back-off wait of the catch block, lines 406-409
BackoffBody(p) ==
    LET w == WaitTime(p.attempt)
    IN  NextAttempt([p EXCEPT !.now = @ + w, !.waited = @ + w, !.lastGap = w])

Backoff ==
    /\ poll.pc = "sleeping"
    /\ poll' = BackoffBody(poll)
    /\ UNCHANGED <<mon, proc, gp, sim, gen, conc, bg, start, util>>

\* The caller gives up the wait.  waitForConversion takes no cancellation
\* signal (line 388): the loop and its back-off sleep go on.
CancelPoll ==
    /\ poll.pc \in {"probing", "sleeping"}
    /\ ~poll.cancelled
    /\ poll' = [poll EXCEPT !.cancelled = TRUE]
    /\ UNCHANGED <<mon, proc, gp, sim, gen, conc, bg, start, util>>

PollNext ==
    \/ \E n \in AttemptLimits : waitForConversion(n)
    \/ \E o \in ProbeOutcomes : Probe(o)
    \/ Backoff
    \/ CancelPoll

-----------------------------------------------------------------------------
(***************************************************************************)
(* AudioProcessor (src/unnamed/part_000): the byte sampler                 *)
(***************************************************************************)
\* fixed point: an amplitude or a duration v stands for v / SCALE
SCALE == 10 * 10 * 10

\* fileSize / 20000, Math.max(30, Math.min(600, ...)) at part_000:126
BYTES_PER_SECOND == 20000
MIN_DURATION_S == 30
MAX_DURATION_S == 600
\* Math.min(200, Math.max(100, ...)) at part_000:129
MIN_PEAKS == 100
MAX_PEAKS == 200
\* j += 20 at part_000:172
SAMPLE_STRIDE == 20
\* audioBuffer[j] - 128 at part_000:175 and rms / 128 at part_000:183
BYTE_CENTER == 128
\* sampleRate, channels, bits at part_000:140-143
SAMPLE_RATE == 44100
CHANNELS == 2
BITS == 16

\* A buffer is its length and the rule that gives its bytes:
\* byte j is (a * j + b) mod 256.
SmallLengths == {0, 1, 2, 19, 99, 100, 101, 199, 250, 2000, 4000, 4021}
LargeLengths == {2020000, 3000000, 4100000}
SmallBuffers == [len : SmallLengths, a : {0, 1, 7}, b : {0, 128, 255}]
LargeBuffers == [len : LargeLengths, a : {0, 7}, b : {0}]
Buffers == SmallBuffers \cup LargeBuffers
\* what a caller passes that is no buffer at all (null or undefined)
NoBuffer == [len |-> -1, a |-> 0, b |-> 0]

ByteAt(buf, j) == (buf.a * j + buf.b) % 256

\* TLC evaluates an operator's argument each time the operator's body names
\* it.  Where a costly value is used more than once below, it is bound by a
\* quantifier over a one-element set, which evaluates it once.

\* the largest r with r * r <= n, for Math.sqrt
RECURSIVE ISqrtIn(_, _, _)
ISqrtIn(n, lo, hi) ==
    IF lo >= hi THEN lo
    ELSE LET mid == (lo + hi + 1) \div 2
         IN  IF mid * mid <= n THEN ISqrtIn(n, mid, hi) ELSE ISqrtIn(n, lo, mid - 1)
ISqrt(n) == ISqrtIn(n, 0, Min(n, 46340))

\* estimatedDuration, part_000:126, in units of 1 / SCALE seconds
EstimatedDuration(fileSize) ==
    Max(MIN_DURATION_S * SCALE,
        Min(MAX_DURATION_S * SCALE, fileSize \div (BYTES_PER_SECOND \div SCALE)))

\* TargetPeaks without its two clamps: one peak per two seconds of audio
TargetPeaksUnclamped(fileSize) == EstimatedDuration(fileSize) \div SCALE

\* targetPeaks, part_000:129
TargetPeaks(fileSize) ==
    Min(MAX_PEAKS, Max(MIN_PEAKS, EstimatedDuration(fileSize) \div SCALE))

\* The inner loop of extractRealAmplitudes, part_000:172-179.  Iteration k
\* reads index j = startByte + 20 * k; the guard j < audioBuffer.length - 1
\* lets the byte through or not.  Its contribution to sum:
SquareAt(buf, j) ==
    IF j < buf.len - 1
    THEN (ByteAt(buf, j) - BYTE_CENTER) * (ByteAt(buf, j) - BYTE_CENTER)
    ELSE 0

\* and to count:
CountAt(buf, j) == IF j < buf.len - 1 THEN 1 ELSE 0

\* sum and count over the iterations k0 .. k1 - 1; the range is halved
\* instead of walked so that the evaluation's depth stays logarithmic
RECURSIVE LoopSum(_, _, _, _)
LoopSum(buf, startByte, k0, k1) ==
    IF k1 <= k0 THEN 0
    ELSE IF k1 = k0 + 1 THEN SquareAt(buf, startByte + SAMPLE_STRIDE * k0)
    ELSE LoopSum(buf, startByte, k0, (k0 + k1) \div 2)
         + LoopSum(buf, startByte, (k0 + k1) \div 2, k1)

RECURSIVE LoopCount(_, _, _, _)
LoopCount(buf, startByte, k0, k1) ==
    IF k1 <= k0 THEN 0
    ELSE IF k1 = k0 + 1 THEN CountAt(buf, startByte + SAMPLE_STRIDE * k0)
    ELSE LoopCount(buf, startByte, k0, (k0 + k1) \div 2)
         + LoopCount(buf, startByte, (k0 + k1) \div 2, k1)

\* for (let j = startByte; j < endByte; j += 20) runs
\* ceil((endByte - startByte) / 20) times
Iterations(startByte, endByte) ==
    (Max(0, endByte - startByte) + SAMPLE_STRIDE - 1) \div SAMPLE_STRIDE

\* rms and normalized, part_000:182-183; the square root is taken of the
\* mean scaled by 100 * 100, which keeps two more digits of the root
Normalized(sum, count) ==
    LET rms100 == IF count > 0 THEN ISqrt((sum \div count) * 100 * 100) ELSE 0
    IN  Min(SCALE, (rms100 * (SCALE \div 100)) \div BYTE_CENTER)

\* startByte, part_000:164
StartByte(i, chunkSize) == i * chunkSize

\* a chunk that runs to the end of the buffer
EndByteOfBuffer(buf, i, chunkSize) == buf.len

\* endByte, part_000:165
EndByte(buf, i, chunkSize) == Min(StartByte(i, chunkSize) + chunkSize, buf.len)

\* the indices j at which the inner loop reads audioBuffer[j],
\* part_000:172-175: the values j takes that pass the test of line 173
Reads(buf, startByte, endByte) ==
    {j \in {startByte + SAMPLE_STRIDE * k :
                k \in 0 .. Iterations(startByte, endByte) - 1} : j < buf.len - 1}

\* one iteration of the outer loop, part_000:163-186 (i counts from 0)
ChunkPeak(buf, i, chunkSize) ==
    LET startByte == StartByte(i, chunkSize)
        endByte == EndByte(buf, i, chunkSize)
        n == Iterations(startByte, endByte)
    IN  CHOOSE normalized \in
            {Normalized(sum, count) : sum \in {LoopSum(buf, startByte, 0, n)},
                                      count \in {LoopCount(buf, startByte, 0, n)}} : TRUE

\* smoothPeaks, part_000:197-215, with windowSize = 1
smoothPeaks(peaks) ==
    [i \in 1 .. Len(peaks) |->
        LET lo == Max(1, i - 1)
            hi == Min(Len(peaks), i + 1)
            sum == IF hi - lo = 2 THEN peaks[lo] + peaks[lo + 1] + peaks[hi]
                   ELSE IF hi - lo = 1 THEN peaks[lo] + peaks[hi]
                   ELSE peaks[lo]
        IN  sum \div (hi - lo + 1)]

\* the peaks array when the outer loop of extractRealAmplitudes ends,
\* part_000:160-186
RawPeaks(buf, targetPeaks) ==
    LET chunkSize == buf.len \div targetPeaks
    IN  <<>> \o [i \in 1 .. targetPeaks |-> ChunkPeak(buf, i - 1, chunkSize)]

\* what the outer loop of extractRealAmplitudes did, chunk by chunk,
\* part_000:163-186: the bounds of the chunk, the indices read and the
\* value pushed
Chunks(buf, targetPeaks) ==
    LET chunkSize == buf.len \div targetPeaks
        peaks == RawPeaks(buf, targetPeaks)
    IN  <<>> \o [i \in 1 .. targetPeaks |->
            [startByte |-> StartByte(i - 1, chunkSize),
             endByte |-> EndByte(buf, i - 1, chunkSize),
             reads |-> Reads(buf, StartByte(i - 1, chunkSize),
                             EndByte(buf, i - 1, chunkSize)),
             normalized |-> peaks[i]]]

\* extractRealAmplitudes, part_000:159-190
extractRealAmplitudes(buf, targetPeaks) ==
    CHOOSE smoothed \in
        {<<>> \o smoothPeaks(peaks) : peaks \in {RawPeaks(buf, targetPeaks)}} : TRUE

\* the object simulatePeaksExtraction returns, part_000:137-144
PeaksData(peaks, duration) ==
    [outcome |-> "returned", peaks |-> peaks, duration |-> duration,
     sampleRate |-> SAMPLE_RATE, channels |-> CHANNELS, length |-> Len(peaks),
     bits |-> BITS]

Thrown(error) == [outcome |-> "threw", error |-> error]

\* The catch block of simulatePeaksExtraction, part_000:146-150.  It names
\* targetPeaks and estimatedDuration, which are const declarations of the
\* try block and not in scope here: evaluating the call's arguments throws
\* a ReferenceError before generateFallbackPeaks is entered.
SimulateCatch == Thrown("ReferenceError: targetPeaks is not defined")

\* simulatePeaksExtraction, part_000:116-151: <<result, currentAudioSize'>>
simulatePeaksExtraction(audioBuffer, currentAudioSize) ==
    IF audioBuffer = NoBuffer
    THEN <<SimulateCatch, currentAudioSize>>     \* audioBuffer.length throws
    ELSE LET fileSize == audioBuffer.len
             targetPeaks == TargetPeaks(fileSize)
         IN  <<PeaksData(extractRealAmplitudes(audioBuffer, targetPeaks),
                         EstimatedDuration(fileSize)),
               fileSize>>

NoValue == "<undefined>"
ProcNew == [currentVideoId |-> NoValue, currentAudioSize |-> 0]
SimIdle == [pc |-> "idle"]

\* a caller invokes simulatePeaksExtraction on the instance; chunks is
\* history, the chunks extractRealAmplitudes went through
CallSimulate(buf) ==
    /\ sim.pc = "idle"
    /\ gp.pc = "idle"
    /\ \E r \in {simulatePeaksExtraction(buf, proc.currentAudioSize)} :
           /\ sim' = [pc |-> "done", input |-> buf, result |-> r[1],
                      chunks |-> IF buf = NoBuffer THEN <<>>
                                 ELSE Chunks(buf, TargetPeaks(buf.len))]
           /\ proc' = [proc EXCEPT !.currentAudioSize = r[2]]
    /\ UNCHANGED <<mon, poll, gp, gen, conc, bg, start, util>>

SamplerNext == \E buf \in Buffers \cup {NoBuffer} : CallSimulate(buf)

-----------------------------------------------------------------------------
(***************************************************************************)
(* AudioProcessor.generatePeaks (part_000:30-84) and                       *)
(* extractPeaksFromFile (part_000:92-109)                                  *)
(***************************************************************************)
\* the identifiers a caller passes; NoValue is the default, null
VideoIds == {NoValue, "dQw4w9WgXcQ", "a", "9bZkp7q19f0"}

\* what the GET of the asset does: "ok" resolves with a body, "nodata"
\* resolves with no body, "transport" and "timeout" reject
DownloadOutcomes == {"ok", "nodata", "transport", "timeout"}

GpIdle ==
    [pc |-> "idle", videoId |-> NoValue, data |-> NoBuffer,
     tempFilePath |-> NoValue, fileExists |-> FALSE, unlinkCalls |-> 0,
     unlinkFailed |-> FALSE,
     pending |-> [outcome |-> "none"], result |-> [outcome |-> "none"]]

\* GpFail with no finally block: an error settles the call at once
GpFailNoCleanup(g, error) == [g EXCEPT !.pc = "done", !.result = Thrown(error)]

\* the catch block, part_000:69-72, logs and throws the error again; the
\* finally block, part_000:73-83, unlinks only when tempFilePath is set
GpFail(g, error) ==
    IF g.tempFilePath = NoValue
    THEN [g EXCEPT !.pc = "done", !.result = Thrown(error)]
    ELSE [g EXCEPT !.pc = "cleanup", !.pending = Thrown(error)]

\* the call, up to the await of the download, part_000:30-47
generatePeaks(videoId) ==
    /\ gp.pc = "idle"
    /\ sim.pc = "idle"
    /\ gp' = [gp EXCEPT !.pc = "downloading", !.videoId = videoId]
    /\ UNCHANGED <<mon, poll, proc, sim, gen, conc, bg, start, util>>

\* path.join(this.tempDir, `audio_${Date.now()}.mp3`), part_000:55
TempFilePath(now) == "audio_" \o ToString(now) \o ".mp3"

\* the download settles, part_000:39-55; now is what Date.now() returns
DownloadBody(g, o, data, now) ==
    IF o = "ok"
    THEN [g EXCEPT !.pc = "writing", !.data = data, !.tempFilePath = TempFilePath(now)]
    ELSE IF o = "nodata"
    THEN GpFail(g, "No audio data received")
    ELSE GpFail(g, o)

Download(o, data) ==
    /\ gp.pc = "downloading"
    /\ gp' = DownloadBody(gp, o, data, conc.clock)
    /\ UNCHANGED <<mon, poll, proc, sim, gen, conc, bg, start, util>>

\* fs.writeFile settles, part_000:56
WriteFile(ok) ==
    /\ gp.pc = "writing"
    /\ gp' = IF ok THEN [gp EXCEPT !.pc = "reading", !.fileExists = TRUE]
                   ELSE GpFail(gp, "writeFile failed")
    /\ UNCHANGED <<mon, poll, proc, sim, gen, conc, bg, start, util>>

\* fs.readFile settles in extractPeaksFromFile, part_000:94-103, and the
\* extraction runs; an error is thrown again by both catch blocks
ReadFile(ok) ==
    /\ gp.pc = "reading"
    /\ IF ok
       THEN \E r \in {simulatePeaksExtraction(gp.data, proc.currentAudioSize)} :
                /\ gp' = [gp EXCEPT !.pc = "cleanup", !.pending = r[1]]
                /\ proc' = [currentVideoId |-> gp.videoId, currentAudioSize |-> r[2]]
       ELSE /\ gp' = GpFail(gp, "readFile failed")
            /\ proc' = proc
    /\ UNCHANGED <<mon, poll, sim, gen, conc, bg, start, util>>

\* fs.unlink settles in the finally block, part_000:75-82, and
\* generatePeaks settles with what the try or the catch block left
Unlink(ok) ==
    /\ gp.pc = "cleanup"
    /\ ok => gp.fileExists
    /\ gp' = [gp EXCEPT !.pc = "done", !.result = gp.pending,
                        !.unlinkCalls = @ + 1, !.unlinkFailed = ~ok,
                        !.fileExists = IF ok THEN FALSE ELSE @]
    /\ UNCHANGED <<mon, poll, proc, sim, gen, conc, bg, start, util>>

PeaksNext ==
    \/ \E v \in VideoIds : generatePeaks(v)
    \/ \E o \in DownloadOutcomes, data \in SmallBuffers : Download(o, data)
    \/ \E ok \in BOOLEAN : WriteFile(ok)
    \/ \E ok \in BOOLEAN : ReadFile(ok)
    \/ \E ok \in BOOLEAN : Unlink(ok)

-----------------------------------------------------------------------------
(***************************************************************************)
(* AudioProcessor.generateRealisticPeaks (part_000:243-315)                *)
(***************************************************************************)
\* Bounds: the calls of one behaviour and the peaks of one call.
MaxGenCalls == 2
MaxNumPeaks == 2

\* this.currentAudioSize || 1000000 at part_000:247
DEFAULT_AUDIO_SIZE == 1000000
\* % 10000 at part_000:256
SEED_MODULUS == 10000
\* seed % 4 at part_000:260
PATTERN_COUNT == 4
\* Math.PI in units of 1 / SCALE, part_000:268
PI_MILLI == 3142
\* the two halves of a 32-bit word, for & 0xffffffff at part_000:253
HALF_WORD == 65536

\* the character codes of the identifiers of VideoIds and of 'default'
CharCodes(id) ==
    CASE id = "default" -> <<100, 101, 102, 97, 117, 108, 116>>
      [] id = "dQw4w9WgXcQ" -> <<100, 81, 119, 52, 119, 57, 87, 103, 88, 99, 81>>
      [] id = "a" -> <<97>>
      [] id = "9bZkp7q19f0" -> <<57, 98, 90, 107, 112, 55, 113, 49, 57, 102, 48>>

\* ((h << 5) - h + c) & 0xffffffff, part_000:253: 31 * h + c reduced to a
\* signed 32-bit integer.  The product is formed on the two 16-bit halves
\* of h so that no intermediate value leaves 32 bits.
HashStep(h, c) ==
    LET lo == h % HALF_WORD
        hi == h \div HALF_WORD
        t == 31 * lo + c
        hi2 == (31 * hi + (t \div HALF_WORD)) % HALF_WORD
        hiSigned == IF hi2 >= HALF_WORD \div 2 THEN hi2 - HALF_WORD ELSE hi2
    IN  hiSigned * HALF_WORD + (t % HALF_WORD)

\* the loop of part_000:251-254 over the first n characters
RECURSIVE HashUpTo(_, _)
HashUpTo(codes, n) ==
    IF n = 0 THEN 0 ELSE HashStep(HashUpTo(codes, n - 1), codes[n])

videoIdHash(id) == HashUpTo(CharCodes(id), Len(CharCodes(id)))

\* Math.abs(videoIdHash + audioSize) % 10000, part_000:256.  The sum of a
\* non-negative hash and the size may pass 2^31, so there the residues
\* are added instead.
SeedSigned(hash, audioSize) ==
    IF hash >= 0
    THEN ((hash % SEED_MODULUS) + (audioSize % SEED_MODULUS)) % SEED_MODULUS
    ELSE IF hash + audioSize >= 0
    THEN (hash + audioSize) % SEED_MODULUS
    ELSE 0 - ((0 - (hash + audioSize)) % SEED_MODULUS)
Seed(hash, audioSize) ==
    IF hash >= 0
    THEN ((hash % SEED_MODULUS) + (audioSize % SEED_MODULUS)) % SEED_MODULUS
    ELSE IF hash + audioSize >= 0
    THEN (hash + audioSize) % SEED_MODULUS
    ELSE (0 - (hash + audioSize)) % SEED_MODULUS

\* seed % 4, part_000:260; the remainder has the sign of the seed
PatternType(seed) ==
    IF seed >= 0 THEN seed % PATTERN_COUNT ELSE 0 - ((0 - seed) % PATTERN_COUNT)

\* Math.sin of an angle >= 0 given in 1 / SCALE radians, in units of
\* 1 / SCALE: Bhaskara's rational approximation on each half period
SinHalf(x) ==
    (16 * x * (PI_MILLI - x)) \div ((5 * PI_MILLI * PI_MILLI - 4 * x * (PI_MILLI - x)) \div SCALE)
Sin(angle) ==
    IF (angle % (2 * PI_MILLI)) < PI_MILLI
    THEN SinHalf(angle % (2 * PI_MILLI))
    ELSE 0 - SinHalf((angle % (2 * PI_MILLI)) - PI_MILLI)

Abs(x) == IF x < 0 THEN 0 - x ELSE x

\* progress * Math.PI * m + seed * (k / 1000), in 1 / SCALE radians
Angle(progress, m, seed, k) == (progress * m * PI_MILLI) \div SCALE + k * seed

\* the switch of part_000:266-290; r is the Math.random() of line 279
PatternAmplitude(patternType, i, progress, seed, r) ==
    CASE patternType = 0 ->
            3 * (SCALE \div 10) + (5 * Sin(Angle(progress, 6, seed, 1))) \div 10
            + (2 * Sin(Angle(progress, 20, seed, 2))) \div 10
      [] patternType = 1 ->
            ((2 * (SCALE \div 10) + (6 * Abs(Sin(Angle(progress, 12, seed, 1)))) \div 10)
             * (SCALE + (3 * Sin(Angle(progress, 40, seed, 3))) \div 10)) \div SCALE
      [] patternType = 2 ->
            SCALE \div 10 + (7 * progress * Sin(Angle(progress, 8, seed, 1))) \div (10 * SCALE)
            + (3 * r * (seed % 100)) \div (10 * 100)
      [] patternType = 3 ->
            IF (i + seed) % 20 < 3
            THEN ((2 * (SCALE \div 10) + (5 * Sin(Angle(progress, 3, seed, 1))) \div 10) * 18) \div 10
            ELSE 2 * (SCALE \div 10) + (5 * Sin(Angle(progress, 3, seed, 1))) \div 10
      [] OTHER ->
            3 * (SCALE \div 10) + (4 * Sin(Angle(progress, 4, 0, 0))) \div 10

\* part_000:292-299: the seeded offset, then the occasional peak, which
\* draws Math.random() twice: r2 decides (< 0.05), r3 is the height
WithRandomness(amplitude, i, seed, r2, r3) ==
    amplitude + ((((seed + i) % SCALE) - (SCALE \div 2)) * 3) \div 10
    + (IF r2 < (5 * SCALE) \div 100 THEN (r3 * 4) \div 10 ELSE 0)

\* part_000:301-306: fade in over the first 5 %, fade out over the last
FadedInOnly(amplitude, progress) ==
    IF progress < (5 * SCALE) \div 100
    THEN (amplitude * progress) \div ((5 * SCALE) \div 100)
    ELSE amplitude
Faded(amplitude, progress) ==
    IF progress < (5 * SCALE) \div 100
    THEN (amplitude * progress) \div ((5 * SCALE) \div 100)
    ELSE IF progress > (95 * SCALE) \div 100
    THEN (amplitude * (SCALE - progress)) \div ((5 * SCALE) \div 100)
    ELSE amplitude

\* part_000:309
Clamped(amplitude) == Max(0 - SCALE, Min(SCALE, amplitude))

\* the amplitude of iteration i when the fade is reached, part_000:264-299;
\* draws is <<r, r2, r3>>
PreFadeAt(i, numPeaks, seed, draws) ==
    WithRandomness(
        PatternAmplitude(PatternType(seed), i, (i * SCALE) \div numPeaks, seed, draws[1]),
        i, seed, draws[2], draws[3])

\* one iteration of the loop of part_000:262-312
PeakAt(i, numPeaks, seed, draws) ==
    Clamped(Faded(PreFadeAt(i, numPeaks, seed, draws), (i * SCALE) \div numPeaks))

\* the seed generateRealisticPeaks derives from the instance fields p,
\* part_000:246-256
SeedOf(p) ==
    LET audioSize == IF p.currentAudioSize # 0 THEN p.currentAudioSize ELSE DEFAULT_AUDIO_SIZE
        videoId == IF p.currentVideoId # NoValue THEN p.currentVideoId ELSE "default"
    IN  Seed(videoIdHash(videoId), audioSize)

\* generateRealisticPeaks, part_000:243-315, on the instance fields p;
\* rnd[i] holds the values Math.random() returns in iteration i - 1
generateRealisticPeaks(numPeaks, p, rnd) ==
    CHOOSE peaks \in {[i \in 1 .. numPeaks |-> PeakAt(i - 1, numPeaks, seed, rnd[i])] :
                      seed \in {SeedOf(p)}} : TRUE

\* the values Math.random() may return, in units of 1 / SCALE
RandomDraws == {10, 900}
RandomSources(numPeaks) == [1 .. numPeaks -> RandomDraws \X RandomDraws \X RandomDraws]

\* the sizes simulatePeaksExtraction may have left in currentAudioSize
AudioSizes == {0, 2, 4021}

\* extractPeaksFromFile and simulatePeaksExtraction store what seeds the
\* generator in the instance, part_000:97 and part_000:122
StoreSeedInputs(videoId, fileSize) ==
    /\ Len(gen) < MaxGenCalls
    /\ proc' = [currentVideoId |-> videoId, currentAudioSize |-> fileSize]
    /\ UNCHANGED <<mon, poll, gp, sim, gen, conc, bg, start, util>>

\* a call of generateRealisticPeaks; the call is recorded with what it read
CallGenerate(numPeaks, rnd) ==
    /\ Len(gen) < MaxGenCalls
    /\ \E peaks \in {<<>> \o generateRealisticPeaks(numPeaks, proc, rnd)} :
           gen' = Append(gen, [videoId |-> proc.currentVideoId,
                               audioSize |-> proc.currentAudioSize,
                               numPeaks |-> numPeaks, peaks |-> peaks])
    /\ UNCHANGED <<mon, poll, proc, gp, sim, conc, bg, start, util>>

\* the lengths of the long calls, whose fades span several elements, and
\* their Math.random(), which returns the same three values in every
\* iteration
PeakCounts == {1, 21, 40}
LongSources(numPeaks) ==
    {[i \in 1 .. numPeaks |-> draws] : draws \in RandomDraws \X RandomDraws \X RandomDraws}

\* a call of generateRealisticPeaks recorded with the amplitudes its
\* iterations had before the fade
CallGenerateLong(numPeaks, rnd) ==
    /\ util.pc = "idle"
    /\ \E seed \in {SeedOf(proc)} :
         util' = [pc |-> "done", op |-> "generateRealisticPeaks",
                  videoId |-> proc.currentVideoId,
                  audioSize |-> proc.currentAudioSize,
                  numPeaks |-> numPeaks, seed |-> seed,
                  patternType |-> PatternType(seed),
                  pre |-> <<>> \o [i \in 1 .. numPeaks |->
                                      PreFadeAt(i - 1, numPeaks, seed, rnd[i])],
                  result |-> <<>> \o generateRealisticPeaks(numPeaks, proc, rnd)]
    /\ UNCHANGED <<mon, poll, proc, gp, sim, gen, conc, bg, start>>

GenNext ==
    \/ \E v \in VideoIds, n \in AudioSizes : StoreSeedInputs(v, n)
    \/ \E numPeaks \in 1 .. MaxNumPeaks :
           \E rnd \in RandomSources(numPeaks) : CallGenerate(numPeaks, rnd)

FadeNext ==
    \/ \E v \in VideoIds, n \in AudioSizes : StoreSeedInputs(v, n)
    \/ \E numPeaks \in PeakCounts :
           \E rnd \in LongSources(numPeaks) : CallGenerateLong(numPeaks, rnd)

-----------------------------------------------------------------------------
(***************************************************************************)
(* generatePeaks calls running interleaved on the one exported instance    *)
(* (part_000:396), the temp directory they share, and cleanup()            *)
(* (part_000:382-393).  Each await of the code ends one step.              *)
(***************************************************************************)
\* the latest value of the millisecond clock Date.now() reads
MaxClockMs == 1

\* the invocations, their videoId arguments and the bodies their downloads
\* return (different for each, so that a file tells who wrote it)
Calls == {1, 2}
ConcVideoId(c) == IF c = 1 THEN "a" ELSE "dQw4w9WgXcQ"
ConcData(c) == IF c = 1 THEN [len |-> 2, a |-> 0, b |-> 0]
                        ELSE [len |-> 250, a |-> 1, b |-> 128]

\* read is the content fs.readFile returned; lost is history: the file was
\* deleted by someone else between this call's write and its read
ConcCallIdle ==
    [pc |-> "idle", videoId |-> NoValue, data |-> NoBuffer,
     tempFilePath |-> NoValue, unlinkCalls |-> 0, read |-> NoBuffer,
     lost |-> FALSE,
     pending |-> [outcome |-> "none"], result |-> [outcome |-> "none"]]

\* files maps each path that exists in the temp directory to its content
ConcIdle ==
    [call |-> [c \in Calls |-> ConcCallIdle], files |-> <<>>, clock |-> 0,
     cleanup |-> [pc |-> "idle", listed |-> {}], fallbacks |-> <<>>]

FileWritten(files, path, data) ==
    [q \in DOMAIN files \cup {path} |-> IF q = path THEN data ELSE files[q]]
FileRemoved(files, path) ==
    [q \in DOMAIN files \ {path} |-> files[q]]

\* history: note the calls, other than the actor, whose written and not yet
\* read file at path is deleted
LoseFile(c, path, actor) ==
    [d \in Calls |->
        IF d # actor /\ c.call[d].pc = "reading" /\ c.call[d].tempFilePath = path
           /\ path \in DOMAIN c.files
        THEN [c.call[d] EXCEPT !.lost = TRUE]
        ELSE c.call[d]]

\* generatePeaks(audioUrl, videoId), part_000:30-47
ConcGeneratePeaks(c) ==
    /\ conc.call[c].pc = "idle"
    /\ conc' = [conc EXCEPT !.call[c] = [@ EXCEPT !.pc = "downloading",
                                                   !.videoId = ConcVideoId(c)]]
    /\ UNCHANGED <<mon, poll, proc, gp, sim, gen, bg, start, util>>

\* the download settles and the path is named after the clock, part_000:39-55
ConcDownload(c, o) ==
    /\ conc.call[c].pc = "downloading"
    /\ conc' = [conc EXCEPT !.call[c] = DownloadBody(@, o, ConcData(c), conc.clock)]
    /\ UNCHANGED <<mon, poll, proc, gp, sim, gen, bg, start, util>>

\* fs.writeFile settles, part_000:56: it creates the file or replaces the
\* content of the file that is there
ConcWriteFile(c, ok) ==
    /\ conc.call[c].pc = "writing"
    /\ conc' = IF ok
               THEN [conc EXCEPT !.call[c] = [@ EXCEPT !.pc = "reading"],
                                 !.files = FileWritten(@, conc.call[c].tempFilePath,
                                                       conc.call[c].data)]
               ELSE [conc EXCEPT !.call[c] = GpFail(@, "writeFile failed")]
    /\ UNCHANGED <<mon, poll, proc, gp, sim, gen, bg, start, util>>

\* fs.readFile settles in extractPeaksFromFile, part_000:94-103: it fails
\* when the file is gone, and else the extraction runs on what it read
ConcReadFile(c) ==
    /\ conc.call[c].pc = "reading"
    /\ IF conc.call[c].tempFilePath \in DOMAIN conc.files
       THEN \E content \in {conc.files[conc.call[c].tempFilePath]} :
            \E r \in {simulatePeaksExtraction(content, proc.currentAudioSize)} :
                /\ conc' = [conc EXCEPT !.call[c] = [@ EXCEPT !.pc = "cleanup",
                                                               !.read = content,
                                                               !.pending = r[1]]]
                /\ proc' = [currentVideoId |-> conc.call[c].videoId,
                            currentAudioSize |-> r[2]]
       ELSE /\ conc' = [conc EXCEPT !.call[c] = GpFail(@, "readFile failed")]
            /\ proc' = proc
    /\ UNCHANGED <<mon, poll, gp, sim, gen, bg, start, util>>

\* fs.unlink settles in the finally block, part_000:75-82 (a failure, when
\* the file is gone, is logged) and generatePeaks settles
ConcUnlink(c) ==
    /\ conc.call[c].pc = "cleanup"
    /\ conc' = [conc EXCEPT
                  !.call = [LoseFile(conc, conc.call[c].tempFilePath, c) EXCEPT
                               ![c] = [@ EXCEPT !.pc = "done", !.unlinkCalls = @ + 1,
                                                !.result = conc.call[c].pending]],
                  !.files = FileRemoved(@, conc.call[c].tempFilePath)]
    /\ UNCHANGED <<mon, poll, proc, gp, sim, gen, bg, start, util>>

\* a millisecond passes
ConcTick ==
    /\ conc.clock < MaxClockMs
    /\ conc' = [conc EXCEPT !.clock = @ + 1]
    /\ UNCHANGED <<mon, poll, proc, gp, sim, gen, bg, start, util>>

\* cleanup(), part_000:382-385: fs.readdir lists the temp directory and one
\* unlink is started for each file listed
cleanup ==
    /\ conc.cleanup.pc = "idle"
    /\ conc' = [conc EXCEPT !.cleanup = [pc |-> IF DOMAIN conc.files = {} THEN "done"
                                                ELSE "unlinking",
                                         listed |-> DOMAIN conc.files]]
    /\ UNCHANGED <<mon, poll, proc, gp, sim, gen, bg, start, util>>

\* one of cleanup's unlinks settles, part_000:385-388 (a failure is ignored)
CleanupUnlink(path) ==
    /\ conc.cleanup.pc = "unlinking"
    /\ path \in conc.cleanup.listed
    /\ conc' = [conc EXCEPT
                  !.call = LoseFile(conc, path, 0),
                  !.files = FileRemoved(@, path),
                  !.cleanup = [pc |-> IF conc.cleanup.listed = {path} THEN "done"
                                      ELSE "unlinking",
                               listed |-> conc.cleanup.listed \ {path}]]
    /\ UNCHANGED <<mon, poll, proc, gp, sim, gen, bg, start, util>>

\* generateFallbackPeaks, part_000:223-235, on the instance fields p
generateFallbackPeaks(targetPeaks, duration, p, rnd) ==
    PeaksData(<<>> \o generateRealisticPeaks(targetPeaks, p, rnd), duration)

\* the values Math.random() returns during one fallback generation
FallbackSources(numPeaks) ==
    {[i \in 1 .. numPeaks |-> <<r, r, r>>] : r \in RandomDraws}

\* The procedural fallback is generated for a call that failed.  The
\* generator takes no identifier or size (part_000:243): it reads them from
\* the instance (part_000:247-248); the record keeps what it read.
ConcFallback(c, rnd) ==
    /\ conc.call[c].pc = "done"
    /\ conc.call[c].result.outcome = "threw"
    /\ \A i \in 1 .. Len(conc.fallbacks) : conc.fallbacks[i].for # c
    /\ \E r \in {generateFallbackPeaks(MaxNumPeaks, MIN_DURATION_S * SCALE, proc, rnd)} :
           conc' = [conc EXCEPT !.fallbacks =
                       Append(@, [for |-> c, videoId |-> proc.currentVideoId,
                                  audioSize |-> proc.currentAudioSize, result |-> r])]
    /\ UNCHANGED <<mon, poll, proc, gp, sim, gen, bg, start, util>>

ConcNext ==
    \/ \E c \in Calls : ConcGeneratePeaks(c)
    \/ \E c \in Calls, o \in DownloadOutcomes : ConcDownload(c, o)
    \/ \E c \in Calls, ok \in BOOLEAN : ConcWriteFile(c, ok)
    \/ \E c \in Calls : ConcReadFile(c)
    \/ \E c \in Calls : ConcUnlink(c)
    \/ ConcTick
    \/ cleanup
    \/ \E path \in {TempFilePath(t) : t \in 0 .. MaxClockMs} : CleanupUnlink(path)
    \/ \E c \in Calls, rnd \in FallbackSources(MaxNumPeaks) : ConcFallback(c, rnd)

-----------------------------------------------------------------------------
(***************************************************************************)
(* processVideoInBackground (src/routes/audio.js 352-456)                  *)
(***************************************************************************)
MSG_NO_METHOD == "No monitoring method available for this job"
\* audio.js never requires the audio processor: the name at line 397 is
\* not defined and evaluating it throws
MSG_NO_PROCESSOR == "audioProcessor is not defined"

\* the fields of conversionJob the function reads to choose its wait; a
\* field that is absent (or empty) is NoUrl
Jobs == [sseUrl : {NoUrl, "s1"}, downloadUrl : {NoUrl, "u1"}]

\* the job's row of processing_jobs as the store holds it: status has the
\* column's default (part_001:63), metadata is what the submission stored
JobRow == [status |-> "converting", error |-> NoMsg, metadata |-> "submitted"]

\* how the store answers an update: the row is changed, or the awaited
\* promise is fulfilled with { error } and the row is left as it was
WriteOutcomes == {"applied", "refused"}

\* the update of the progress callback with a status of its own
ProgressUpdateWithStatus(row) ==
    [row EXCEPT !.metadata = "progress", !.status = "converting"]

\* .update({ metadata: { ...progress } }), audio.js:367-377: the only column
\* named is metadata
ProgressUpdate(row) == [row EXCEPT !.metadata = "progress"]

\* .update({ status, completed_at, error_message }), audio.js:447-454
StatusUpdate(row, status, message) ==
    [row EXCEPT !.status = status, !.error = message]

\* status and error are the values the function writes to the columns of
\* the job's row, write is the state of that awaited update and row the
\* stored row.  progressDone counts the progress updates that have ended,
\* late those of them that were applied after the status update.
BgIdle ==
    [pc |-> "idle", job |-> [sseUrl |-> NoUrl, downloadUrl |-> NoUrl],
     strategy |-> "none", finalDownloadUrl |-> NoUrl,
     status |-> "-", error |-> NoMsg,
     write |-> "none", row |-> JobRow, progressDone |-> 0, late |-> 0]

\* the other order of the two tests: polling whenever there is a downloadUrl
StrategyPollFirst(job) ==
    IF job.downloadUrl # NoUrl THEN "poll"
    ELSE IF job.sseUrl # NoUrl THEN "sse"
    ELSE "none"

\* if (conversionJob.sseUrl) ... else if (conversionJob.downloadUrl) ...
\* else throw, audio.js:359-391
Strategy(job) ==
    IF job.sseUrl # NoUrl THEN "sse"
    ELSE IF job.downloadUrl # NoUrl THEN "poll"
    ELSE "none"

\* the catch block, audio.js:443-455, sends the update that marks the job's
\* row failed
BgFail(b, message) ==
    [b EXCEPT !.pc = "done", !.status = "failed", !.error = message,
              !.write = "inflight"]

\* The call, up to the await of its wait, audio.js:352-391.  cb is how the
\* async progress callback of lines 365-378 ends: its promise is fulfilled
\* or rejected.
processVideoInBackground(job, cb) ==
    /\ bg.pc = "idle"
    /\ mon.pc = "idle"
    /\ poll.pc = "idle"
    /\ LET started == [bg EXCEPT !.pc = "waiting", !.job = job,
                                 !.strategy = Strategy(job)]
       IN  CASE Strategy(job) = "sse" ->
                  /\ mon' = SubscribeBody(mon, cb)
                  /\ poll' = poll
                  /\ bg' = started
             [] Strategy(job) = "poll" ->
                  /\ mon' = mon
                  /\ poll' = NextAttempt([poll EXCEPT !.maxAttempts = BACKGROUND_MAX_ATTEMPTS])
                  /\ bg' = started
             [] OTHER ->
                  /\ mon' = mon
                  /\ poll' = poll
                  /\ bg' = BgFail([bg EXCEPT !.job = job], MSG_NO_METHOD)
    /\ UNCHANGED <<proc, gp, sim, gen, conc, start, util>>

\* The awaited wait settles, audio.js:363-397 and 443-455.  A rejection goes
\* to the catch block.  With the URL in hand line 397 names audioProcessor,
\* which throws a ReferenceError, caught by the same catch block.
BgWaitSettled ==
    /\ bg.pc = "waiting"
    /\ \/ /\ bg.strategy = "sse"
          /\ mon.promise = "rejected"
          /\ bg' = BgFail(bg, mon.value)
       \/ /\ bg.strategy = "sse"
          /\ mon.promise = "resolved"
          /\ bg' = BgFail([bg EXCEPT !.finalDownloadUrl = mon.value], MSG_NO_PROCESSOR)
       \/ /\ bg.strategy = "poll"
          /\ poll.pc = "done"
          /\ poll.result = "threw"
          /\ bg' = BgFail(bg, poll.value)
       \/ /\ bg.strategy = "poll"
          /\ poll.pc = "done"
          /\ poll.result = "returned"
          /\ bg' = BgFail([bg EXCEPT !.finalDownloadUrl = bg.job.downloadUrl],
                          MSG_NO_PROCESSOR)
    /\ UNCHANGED <<mon, poll, proc, gp, sim, gen, conc, start, util>>

\* The store answers one of the updates the progress callback sent,
\* audio.js:367-378: one update per invocation of the callback, awaited by
\* the callback alone (youtubeService.js:354 does not await its result).
BgProgressWrite(w) ==
    /\ bg.strategy = "sse"
    /\ bg.progressDone < mon.cbCalls
    /\ bg' = [bg EXCEPT !.progressDone = @ + 1,
                        !.row = IF w = "applied" THEN ProgressUpdate(@) ELSE @,
                        !.late = IF w = "applied" /\ bg.write = "applied"
                                 THEN @ + 1 ELSE @]
    /\ UNCHANGED <<mon, poll, proc, gp, sim, gen, conc, start, util>>

\* The store answers the status update of the catch block, audio.js:447-454;
\* the answer is not looked at.
BgStatusWrite(w) ==
    /\ bg.write = "inflight"
    /\ bg' = [bg EXCEPT !.write = w,
                        !.row = IF w = "applied"
                                THEN StatusUpdate(@, bg.status, bg.error) ELSE @]
    /\ UNCHANGED <<mon, poll, proc, gp, sim, gen, conc, start, util>>

BgNext ==
    \/ \E job \in Jobs, cb \in {"returns", "rejects"} : processVideoInBackground(job, cb)
    \/ \E w \in WriteOutcomes : BgProgressWrite(w)
    \/ \E w \in WriteOutcomes : BgStatusWrite(w)
    \/ \E e \in Events : OnMessage(e)
    \/ OnError
    \/ OnTimeout
    \/ \E d \in ClockSteps : MonTick(d)
    \/ \E o \in ProbeOutcomes : Probe(o)
    \/ Backoff
    \/ BgWaitSettled

-----------------------------------------------------------------------------
(***************************************************************************)
(* startConversion and parseNewAPIResponse (youtubeService.js 34-113 and   *)
(* 250-295), as POST /process runs them (src/routes/audio.js 15-148)       *)
(***************************************************************************)
MSG_NO_KEY == "RapidAPI key not configured"
MSG_INVALID_URL == "Invalid YouTube URL"
MSG_NO_DATA == "No response data from YouTube API"
MSG_PARSE == "Failed to parse API response: "
MSG_RATE_LIMIT == "Rate limit exceeded. Please try again later."
MSG_FORBIDDEN == "API access forbidden. Check your RapidAPI key."
MSG_NOT_FOUND == "Video not found or unavailable."
MSG_UNAVAILABLE == "YouTube service temporarily unavailable."
MSG_API_ERROR == "YouTube API error (400): Request failed with status code 400"
MSG_REQUEST_TIMEOUT == "Request timeout. The video might be too long to process."
MSG_TRANSPORT == "connect ECONNREFUSED"

\* what the upstream service may put in the error field of its answer
UpstreamErrors == {"quota exceeded", "This video is private"}

\* The fields of the answer's body that parseNewAPIResponse copies into
\* what the wait and the route read; an absent field is NoMsg, NoUrl or
\* NoValue.  (title, streamUrl and the metadata are copied through and
\* read by no step modelled here.)
Responses ==
    [error : {NoMsg} \cup UpstreamErrors,
     linkDownload : {NoUrl, "u1"},
     linkDownloadProgress : {NoUrl, "s1?token=t1", "s1"},
     videoId : {NoValue, "a"}]
NoResponse ==
    [error |-> NoMsg, linkDownload |-> NoUrl, linkDownloadProgress |-> NoUrl,
     videoId |-> NoValue]

\* How the POST of the job submission ends: "ok" resolves with a body,
\* "nodata" resolves with none, a number rejects with that HTTP status,
\* "ECONNABORTED" rejects on the request's timeout, "transport" rejects
\* before any answer.
SubmitKinds == {"ok", "nodata", "429", "403", "404", "500", "400", "ECONNABORTED", "transport"}
SubmitOutcomes ==
    [kind : {"ok"}, data : Responses]
    \cup [kind : SubmitKinds \ {"ok"}, data : {NoResponse}]

\* progressLink.match(/token=([^&]+)/) and the default, youtubeService.js:260-262
Token(progressLink, videoId, now) ==
    IF progressLink = "s1?token=t1" THEN "t1" ELSE videoId \o "_" \o ToString(now)

\* parseNewAPIResponse, youtubeService.js:250-295
parseNewAPIResponse(responseData, videoId, quality, now) ==
    IF responseData.error # NoMsg
    THEN Thrown(MSG_PARSE \o responseData.error)
    ELSE [outcome |-> "returned",
          id |-> Token(responseData.linkDownloadProgress, videoId, now),
          videoId |-> IF responseData.videoId # NoValue THEN responseData.videoId
                      ELSE videoId,
          token |-> Token(responseData.linkDownloadProgress, videoId, now),
          quality |-> quality, format |-> "mp3", status |-> "ready",
          downloadUrl |-> responseData.linkDownload,
          sseUrl |-> responseData.linkDownloadProgress]

\* startConversion, youtubeService.js:34-113: what it returns or throws
startConversion(hasKey, videoId, quality, http, now) ==
    IF ~hasKey THEN Thrown(MSG_NO_KEY)
    ELSE IF videoId = NoValue THEN Thrown(MSG_INVALID_URL)
    ELSE CASE http.kind = "ok" -> parseNewAPIResponse(http.data, videoId, quality, now)
           [] http.kind = "nodata" -> Thrown(MSG_NO_DATA)
           [] http.kind = "429" -> Thrown(MSG_RATE_LIMIT)
           [] http.kind = "403" -> Thrown(MSG_FORBIDDEN)
           [] http.kind = "404" -> Thrown(MSG_NOT_FOUND)
           [] http.kind = "500" -> Thrown(MSG_UNAVAILABLE)
           [] http.kind = "400" -> Thrown(MSG_API_ERROR)
           [] http.kind = "ECONNABORTED" -> Thrown(MSG_REQUEST_TIMEOUT)
           [] OTHER -> Thrown(MSG_TRANSPORT)

\* error.message.includes(needle), audio.js:120-135, for the messages above
Includes(message, needle) ==
    CASE message = MSG_NOT_FOUND -> needle \in {"not found", "unavailable"}
      [] message = MSG_UNAVAILABLE -> needle = "unavailable"
      [] message = MSG_PARSE \o "This video is private" -> needle = "private"
      [] OTHER -> FALSE

HttpResponse(status, error, cached, audioUrl) ==
    [status |-> status, error |-> error, cached |-> cached, audioUrl |-> audioUrl]
NoHttpResponse == HttpResponse(0, "-", FALSE, NoUrl)

\* the catch block of the route, audio.js:116-147
RouteCatch(message) ==
    IF Includes(message, "rate limit")
    THEN HttpResponse(429, "Rate limit exceeded", FALSE, NoUrl)
    ELSE IF Includes(message, "not found") \/ Includes(message, "unavailable")
    THEN HttpResponse(404, "Video not found", FALSE, NoUrl)
    ELSE IF Includes(message, "private") \/ Includes(message, "restricted")
    THEN HttpResponse(403, "Video access restricted", FALSE, NoUrl)
    ELSE HttpResponse(500, "Processing failed", FALSE, NoUrl)

\* the quality tiers a request is made with
Qualities == {"medium", "high"}

\* the audio_url of the audio_cache row of the video for a quality; the
\* table holds at most one row per (video_id, quality), part_001:17
CachedUrl(quality) == "cached_" \o quality

\* a lookup that takes the video's row whatever its quality
CacheSelectAnyQuality(rows, quality) ==
    IF rows = {} THEN NoUrl ELSE CachedUrl(CHOOSE q \in rows : TRUE)

\* .select('*').eq('video_id', videoId).eq('quality', quality).single(),
\* audio.js:39-44, over the qualities the video has a row for: the audio_url
\* of the row found, NoUrl when there is none
CacheSelect(rows, quality) ==
    IF quality \in rows THEN CachedUrl(quality) ELSE NoUrl

\* rows is the set of qualities the video had a cache row for when the
\* lookup ran, lookup how the lookup ended
StartIdle ==
    [pc |-> "idle", quality |-> "medium", videoId |-> NoValue, cache |-> "-",
     rows |-> {}, lookup |-> "-",
     http |-> [kind |-> "-", data |-> NoResponse],
     job |-> [outcome |-> "none"], response |-> NoHttpResponse]

\* POST /process up to the cache lookup, audio.js:15-44
PostProcess(youtubeUrl, quality) ==
    /\ start.pc = "idle"
    /\ start' =
          CASE youtubeUrl = "missing" ->
                 [start EXCEPT !.pc = "done", !.quality = quality,
                     !.response = HttpResponse(400, "Missing required parameter", FALSE, NoUrl)]
            [] youtubeUrl = "invalid" ->
                 [start EXCEPT !.pc = "done", !.quality = quality,
                     !.response = HttpResponse(400, "Invalid YouTube URL", FALSE, NoUrl)]
            [] OTHER ->
                 [start EXCEPT !.pc = "cacheLookup", !.quality = quality,
                               !.videoId = "dQw4w9WgXcQ"]
    /\ UNCHANGED <<mon, poll, proc, gp, sim, gen, conc, bg, util>>

\* The cache lookup settles, audio.js:39-60.  answered is whether the store
\* answered the query (otherwise the result carries an error), rows the
\* qualities the video has a row for.
CacheLookup(answered, rows) ==
    /\ start.pc = "cacheLookup"
    /\ \E o \in {IF ~answered THEN "error"
                  ELSE IF CacheSelect(rows, start.quality) # NoUrl THEN "hit"
                  ELSE "miss"} :
          start' = IF o = "hit"
                   THEN [start EXCEPT !.pc = "done", !.cache = o, !.lookup = o,
                            !.rows = rows,
                            !.response = HttpResponse(200, "-", TRUE,
                                            CacheSelect(rows, start.quality))]
                   ELSE [start EXCEPT !.pc = "submitting", !.cache = o, !.lookup = o,
                                      !.rows = rows]
    /\ UNCHANGED <<mon, poll, proc, gp, sim, gen, conc, bg, util>>

\* startConversion settles and the route tests the handle, audio.js:64-71
\* and 116-147
Submit(hasKey, http) ==
    /\ start.pc = "submitting"
    /\ \E job \in {startConversion(hasKey, start.videoId, start.quality, http, conc.clock)} :
           start' =
              IF job.outcome = "threw"
              THEN [start EXCEPT !.pc = "done", !.http = http, !.job = job,
                                 !.response = RouteCatch(job.error)]
              ELSE IF job.downloadUrl = NoUrl
              THEN [start EXCEPT !.pc = "done", !.http = http, !.job = job,
                       !.response = HttpResponse(500, "Download info failed", FALSE, NoUrl)]
              ELSE [start EXCEPT !.pc = "cacheWrite", !.http = http, !.job = job]
    /\ UNCHANGED <<mon, poll, proc, gp, sim, gen, conc, bg, util>>

\* the cache upsert settles (an error is logged) and the route answers,
\* audio.js:86-114
CacheWriteFailsRequest(ok) ==
    /\ start.pc = "cacheWrite"
    /\ start' = [start EXCEPT !.pc = "done",
                              !.cache = IF ok THEN "written" ELSE "writeError",
                              !.response = IF ok
                                           THEN HttpResponse(200, "-", FALSE, start.job.downloadUrl)
                                           ELSE HttpResponse(500, "Processing failed", FALSE, NoUrl)]
    /\ UNCHANGED <<mon, poll, proc, gp, sim, gen, conc, bg, util>>
CacheWrite(ok) ==
    /\ start.pc = "cacheWrite"
    /\ start' = [start EXCEPT !.pc = "done",
                              !.cache = IF ok THEN "written" ELSE "writeError",
                              !.response = HttpResponse(200, "-", FALSE, start.job.downloadUrl)]
    /\ UNCHANGED <<mon, poll, proc, gp, sim, gen, conc, bg, util>>

StartNext ==
    \/ \E u \in {"missing", "invalid", "valid"}, q \in Qualities : PostProcess(u, q)
    \/ \E answered \in BOOLEAN, rows \in SUBSET Qualities : CacheLookup(answered, rows)
    \/ \E hasKey \in BOOLEAN, http \in SubmitOutcomes : Submit(hasKey, http)
    \/ \E ok \in BOOLEAN : CacheWrite(ok)

-----------------------------------------------------------------------------
(***************************************************************************)
(* JavaScript numbers are IEEE 754 binary64.  Where the rounding of an     *)
(* operation can decide a result (an index, a comparison), the numbers are *)
(* modelled exactly: a value v >= 0 is the tuple b of LIMBS limbs of 12    *)
(* bits, least significant first, with                                     *)
(*     v = (b[1] + b[2] * 2^12 + ...) / 2^(12 * FRAC_LIMBS),               *)
(* and an operation forms the exact result and rounds it to MANTISSA_BITS  *)
(* significant bits, to nearest, ties to even.  The values met here are    *)
(* below 2^12 and, unless zero, above 2^-19, so no exponent is needed.     *)
(***************************************************************************)
\* 52 stored bits and the hidden bit
MANTISSA_BITS == 52 + 1
LIMB == 2 ^ 12
FRAC_LIMBS == 2 * 3
LIMBS == FRAC_LIMBS + 1
WORD_BITS == 12 * LIMBS

\* the integer n as a number, and Math.floor of a number
FromInt(n) == <<>> \o [j \in 1 .. LIMBS |-> IF j = LIMBS THEN n ELSE 0]
FloorInt(b) == b[LIMBS]

\* bit k of b, bit 1 the least significant, and the position of the
\* leading bit
Bit(b, k) == (b[((k - 1) \div 12) + 1] \div (2 ^ ((k - 1) % 12))) % 2
BitLen(b) ==
    LET S == {k \in 1 .. WORD_BITS : Bit(b, k) = 1}
    IN  IF S = {} THEN 0 ELSE CHOOSE k \in S : \A j \in S : j <= k

\* exact sum, exact product with an integer, exact quotient by an integer
\* (with whether the division left no remainder)
BigAdd(a, b) ==
    LET c[j \in 0 .. LIMBS] ==
            IF j = 0 THEN 0 ELSE (a[j] + b[j] + c[j - 1]) \div LIMB
    IN  <<>> \o [j \in 1 .. LIMBS |-> (a[j] + b[j] + c[j - 1]) % LIMB]
BigMulSmall(a, n) ==
    LET c[j \in 0 .. LIMBS] ==
            IF j = 0 THEN 0 ELSE (a[j] * n + c[j - 1]) \div LIMB
    IN  <<>> \o [j \in 1 .. LIMBS |-> (a[j] * n + c[j - 1]) % LIMB]
BigDivSmall(a, d) ==
    LET r[j \in 1 .. LIMBS + 1] ==
            IF j = LIMBS + 1 THEN 0 ELSE (LIMB * r[j + 1] + a[j]) % d
    IN  [quot |-> <<>> \o [j \in 1 .. LIMBS |-> (LIMB * r[j + 1] + a[j]) \div d],
         exact |-> r[1] = 0]

\* b with its lowest drop bits cleared, and the number with only bit k set
Truncated(b, drop) ==
    <<>> \o [j \in 1 .. LIMBS |->
                IF 12 * j <= drop THEN 0
                ELSE IF 12 * (j - 1) >= drop THEN b[j]
                ELSE (b[j] \div (2 ^ (drop - 12 * (j - 1)))) * (2 ^ (drop - 12 * (j - 1)))]
UnitAt(k) ==
    <<>> \o [j \in 1 .. LIMBS |->
                IF j = ((k - 1) \div 12) + 1 THEN 2 ^ ((k - 1) % 12) ELSE 0]

\* round to nearest, ties to even; exact tells that b is the whole result
\* (FALSE: a division left a remainder below the last bit of b)
Round(b, exact) ==
    LET drop == BitLen(b) - MANTISSA_BITS
        more == (~exact) \/ (\E j \in 1 .. drop - 1 : Bit(b, j) = 1)
    IN  IF drop <= 0 THEN b
        ELSE IF Bit(b, drop) = 1 /\ (more \/ Bit(b, drop + 1) = 1)
        THEN BigAdd(Truncated(b, drop), UnitAt(drop + 1))
        ELSE Truncated(b, drop)

\* a + b, a * n and a / d of the source, n and d integers
FAdd(a, b) == Round(BigAdd(a, b), TRUE)
FMulInt(a, n) == Round(BigMulSmall(a, n), TRUE)
FDivInt(a, d) ==
    CHOOSE v \in {Round(q.quot, q.exact) : q \in {BigDivSmall(a, d)}} : TRUE
\* a <= b
FLeq(a, b) ==
    a = b \/ \E j \in 1 .. LIMBS : a[j] < b[j] /\ \A k \in j + 1 .. LIMBS : a[k] = b[k]

-----------------------------------------------------------------------------
(***************************************************************************)
(* The sequence helpers of the AudioProcessor: resamplePeaks               *)
(* (part_000:364-377), normalizePeaks (part_000:349-356) and smoothPeaks   *)
(* (part_000:197-215), each called on its own.                             *)
(***************************************************************************)
\* Bound: the length of the sequences the helpers are called with.
MaxPeaksLen == 3

\* Math.floor(i * ratio) with ratio = peaks.length / targetLength,
\* part_000:368 and part_000:372; ratio is rounded, and so is the product
SampleIndexOfNext(i, len, targetLength) ==
    FloorInt(FMulInt(FDivInt(FromInt(len), targetLength), i + 1))
SampleIndex(i, len, targetLength) ==
    FloorInt(FMulInt(FDivInt(FromInt(len), targetLength), i))

\* resamplePeaks, part_000:364-377; peaks[index] || 0 at line 373
resamplePeaks(peaks, targetLength) ==
    IF Len(peaks) = 0 THEN <<>>
    ELSE IF Len(peaks) = targetLength THEN peaks
    ELSE <<>> \o [i \in 1 .. targetLength |->
            CHOOSE v \in {IF index + 1 \in DOMAIN peaks THEN peaks[index + 1] ELSE 0 :
                          index \in {SampleIndex(i - 1, Len(peaks), targetLength)}} : TRUE]

\* Math.max(...peaks.map(Math.abs)), part_000:351
MaxSigned(peaks) ==
    CHOOSE m \in {peaks[i] : i \in DOMAIN peaks} :
        \A i \in DOMAIN peaks : peaks[i] <= m
MaxAbs(peaks) ==
    CHOOSE m \in {Abs(peaks[i]) : i \in DOMAIN peaks} :
        \A i \in DOMAIN peaks : Abs(peaks[i]) <= m

\* peak / max, part_000:355, in units of 1 / SCALE, rounded to nearest
Quotient(peak, max) ==
    (IF (peak < 0) = (max < 0) THEN 1 ELSE 0 - 1)
    * ((2 * Abs(peak) * SCALE + Abs(max)) \div (2 * Abs(max)))

\* normalizePeaks, part_000:349-356
normalizePeaks(peaks) ==
    IF Len(peaks) = 0 THEN <<>>
    ELSE IF MaxAbs(peaks) = 0 THEN peaks
    ELSE <<>> \o [i \in 1 .. Len(peaks) |-> Quotient(peaks[i], MaxAbs(peaks))]

\* the window of smoothPeaks, part_000:205, with windowSize = 1
WindowStartSelf(i) == i
WindowStart(i) == Max(1, i - 1)
WindowEnd(i, len) == Min(len, i + 1)

\* sum after the loop of part_000:205-209 has added peaks[lo] .. peaks[j]
RECURSIVE WindowSum(_, _, _)
WindowSum(peaks, lo, j) ==
    IF j < lo THEN FromInt(0) ELSE FAdd(WindowSum(peaks, lo, j - 1), peaks[j])

\* smoothPeaks, part_000:197-215, on binary64 numbers: sum / count at
\* line 211 is the rounded quotient of the rounded sum
smoothPeaksBinary64(peaks) ==
    <<>> \o [i \in 1 .. Len(peaks) |->
                FDivInt(WindowSum(peaks, WindowStart(i), WindowEnd(i, Len(peaks))),
                        WindowEnd(i, Len(peaks)) - WindowStart(i) + 1)]

\* the numbers smoothPeaks is called with: 0, 0.1, 0.7 and 1
NumberValues ==
    {FromInt(0), FDivInt(FromInt(1), 10), FDivInt(FromInt(7), 10), FromInt(1)}
NumberSequences == UNION {[1 .. n -> NumberValues] : n \in 0 .. MaxPeaksLen}

\* the amplitudes the helpers are called with, in units of 1 / SCALE, and
\* the target lengths
PeakValues == {0 - 2 * SCALE, 0 - 300, 0, 700}
PeakSequences == UNION {[1 .. n -> PeakValues] : n \in 0 .. MaxPeaksLen}
TargetLengths == {1, 2, 3, 5, 98}

UtilIdle == [pc |-> "idle"]

\* a call resamplePeaks(peaks, targetLength)
CallResample(peaks, targetLength) ==
    /\ util.pc = "idle"
    /\ util' = [pc |-> "done", op |-> "resamplePeaks", input |-> peaks,
                targetLength |-> targetLength,
                result |-> resamplePeaks(peaks, targetLength)]
    /\ UNCHANGED <<mon, poll, proc, gp, sim, gen, conc, bg, start>>

\* a call normalizePeaks(peaks)
CallNormalize(peaks) ==
    /\ util.pc = "idle"
    /\ util' = [pc |-> "done", op |-> "normalizePeaks", input |-> peaks,
                result |-> normalizePeaks(peaks)]
    /\ UNCHANGED <<mon, poll, proc, gp, sim, gen, conc, bg, start>>

\* a call smoothPeaks(peaks)
CallSmooth(peaks) ==
    /\ util.pc = "idle"
    /\ util' = [pc |-> "done", op |-> "smoothPeaks", input |-> peaks,
                result |-> smoothPeaksBinary64(peaks)]
    /\ UNCHANGED <<mon, poll, proc, gp, sim, gen, conc, bg, start>>

UtilNext ==
    \/ \E peaks \in NumberSequences : CallSmooth(peaks)
    \/ \E peaks \in PeakSequences : CallNormalize(peaks)
    \/ \E peaks \in PeakSequences, targetLength \in TargetLengths :
           CallResample(peaks, targetLength)

-----------------------------------------------------------------------------
Init ==
    /\ mon = MonIdle
    /\ poll = PollIdle
    /\ proc = ProcNew
    /\ gp = GpIdle
    /\ sim = SimIdle
    /\ gen = <<>>
    /\ conc = ConcIdle
    /\ bg = BgIdle
    /\ start = StartIdle
    /\ util = UtilIdle

SpecMonitor == Init /\ [][MonitorNext]_vars
SpecPoll == Init /\ [][PollNext]_vars
SpecSampler == Init /\ [][SamplerNext]_vars
SpecPeaks == Init /\ [][PeaksNext]_vars
SpecGen == Init /\ [][GenNext]_vars
SpecFade == Init /\ [][FadeNext]_vars
SpecConc == Init /\ [][ConcNext]_vars
SpecBackground == Init /\ [][BgNext]_vars
SpecStart == Init /\ [][StartNext]_vars
SpecUtil == Init /\ [][UtilNext]_vars

-----------------------------------------------------------------------------
(***************************************************************************)
(* The claims                                                              *)
(***************************************************************************)

\* C1 (as claimed): once a well-formed 'completed' event carrying a URL U
\* has arrived before any failure event, connection error or timeout, the
\* monitor has resolved with exactly U.
C1_FirstCompleteResolves ==
    mon.first.kind = "complete" =>
        (mon.promise = "resolved" /\ mon.value = mon.first.val)

\* C2 (as claimed): no wait is still in progress once the overall ceiling
\* has elapsed, on the event stream as in the polling loop.
C2_WaitEndsWithinCeiling ==
    /\ mon.promise = "pending" => mon.now <= MONITOR_TIMEOUT_MS
    /\ poll.pc \in {"probing", "sleeping"} => poll.now <= MONITOR_TIMEOUT_MS

\* C3 (as claimed): generatePeaks never raises; whenever it has settled it
\* has returned a peaks result.
C3_GeneratePeaksNeverRaises ==
    gp.pc = "done" => gp.result.outcome = "returned"

\* C4 (as claimed): when the sampling step fails, simulatePeaksExtraction
\* returns a fallback peaks result and its error handler does not raise.
C4_SamplingErrorFallsBack ==
    (sim.pc = "done" /\ sim.input = NoBuffer) => sim.result.outcome = "returned"

\* C5 (as claimed): two calls of generateRealisticPeaks with the same video
\* identifier, buffer length and target count return the same peaks.
C5_GeneratorDeterministic ==
    \A i, j \in 1 .. Len(gen) :
        (/\ gen[i].videoId = gen[j].videoId
         /\ gen[i].audioSize = gen[j].audioSize
         /\ gen[i].numPeaks = gen[j].numPeaks) => gen[i].peaks = gen[j].peaks

\* the target count as the claim gives it:
\* clamp(floor(clamp(L / 20000, 30, 600)), 100, 200)
Clamp(x, lo, hi) == Max(lo, Min(hi, x))
ClaimedTargetCount(L) ==
    Clamp(Clamp(L \div BYTES_PER_SECOND, MIN_DURATION_S, MAX_DURATION_S),
          MIN_PEAKS, MAX_PEAKS)

\* C6: for every non-empty buffer of length L, also for L below the target
\* count, the sampler returns exactly N = clamp(floor(clamp(L / 20000, 30,
\* 600)), 100, 200) peaks, each in [0, 1].
C6_SamplerCountAndRange ==
    (sim.pc = "done" /\ sim.input # NoBuffer /\ sim.input.len > 0) =>
        /\ sim.result.outcome = "returned"
        /\ Len(sim.result.peaks) = ClaimedTargetCount(sim.input.len)
        /\ sim.result.length = ClaimedTargetCount(sim.input.len)
        /\ \A i \in 1 .. Len(sim.result.peaks) :
               sim.result.peaks[i] >= 0 /\ sim.result.peaks[i] <= SCALE

\* C6, witness: a buffer of 3000000 bytes sampled into 150 peaks, not all 0
C6_Witness ==
    /\ sim.pc = "done"
    /\ sim.input.len = 3000000
    /\ sim.result.outcome = "returned"
    /\ Len(sim.result.peaks) = 150
    /\ \E i \in 1 .. 150 : sim.result.peaks[i] > 0

\* C7 (as claimed): when probe k + 1 starts, min(5000, 1000 * k) ms of
\* back-off have passed since probe k, whatever made probe k unsuccessful.
C7_BackoffBetweenProbes ==
    (poll.pc = "probing" /\ poll.attempt > 1) =>
        poll.lastGap = Min(BACKOFF_CAP_MS, BACKOFF_BASE_MS * (poll.attempt - 1))

\* the progressive schedule as the claims give it, summed over probes 1 .. n
RECURSIVE ScheduleSum(_)
ScheduleSum(n) ==
    IF n <= 0 THEN 0
    ELSE Min(BACKOFF_CAP_MS, BACKOFF_BASE_MS * n) + ScheduleSum(n - 1)

C9_ExhaustedDistinguishable ==
    mon.promise = "rejected" => mon.value # MSG_POLL_EXHAUSTED

\* C10 (as claimed): once a well-formed 'error' or 'failed' event has
\* arrived before any other terminal signal, the monitor has failed with the
\* event's message (the default when it has none), the stream is closed and
\* it was subscribed to once only.
C10_FailureEventRejects ==
    mon.first.kind = "failure" =>
        /\ mon.promise = "rejected"
        /\ mon.value = mon.first.val
        /\ ~mon.esOpen
        /\ mon.subscriptions = 1

\* C11 (as claimed): a malformed event never ends the wait.  While nothing
\* but malformed and progress events have arrived the monitor is pending,
\* subscribed and its timer armed; and when the first terminal signal after
\* a malformed event is a valid 'completed' event with a URL, the monitor
\* has resolved with that URL.
C11_MalformedEventSkipped ==
    /\ (mon.malformed > 0 /\ mon.first.kind = "none") =>
           /\ mon.pc = "subscribed"
           /\ mon.promise = "pending"
           /\ mon.esOpen
           /\ mon.timerArmed
    /\ (mon.malformed > 0 /\ mon.first.kind = "complete") =>
           (mon.promise = "resolved" /\ mon.value = mon.first.val)

\* C12: when the first terminal signal is a connection error, the monitor
\* has failed with the connection failure, the event source is closed (so
\* it does not reconnect), the timer is cleared, it was subscribed to once
\* only, and in no later state is it resolved.
C12_ConnectionErrorRejects ==
    mon.first.kind = "connerror" =>
        /\ mon.promise = "rejected"
        /\ mon.value = MSG_SSE_CONNECTION
        /\ ~mon.esOpen
        /\ ~mon.timerArmed
        /\ mon.subscriptions = 1

\* C12, witness: the connection fails after two events were delivered
C12_Witness ==
    /\ mon.first.kind = "connerror"
    /\ mon.events = 2
    /\ mon.promise = "rejected"
    /\ mon.value = MSG_SSE_CONNECTION

\* C13 (as claimed): the callback does not decide the outcome.  Once the
\* monitor and the same call without a callback have both settled, they
\* have settled the same way with the same value.
C13_CallbackNoInfluence ==
    (mon.promise # "pending" /\ mon.ref.promise # "pending") =>
        (mon.promise = mon.ref.promise /\ mon.value = mon.ref.value)

\* C14 (as claimed): the observer is invoked once for each progress unit
\* received, on the event stream (each event that parses) as in the polling
\* loop (each probe), and never after the outcome was delivered.
C14_ObserverPerUnit ==
    /\ mon.cb # "none" => mon.cbCalls = mon.units
    /\ mon.lateCalls = 0
    /\ poll.cbCalls = poll.probes

\* C15 (as claimed): once the caller has cancelled, the wait has returned,
\* the event source is closed and no timer or back-off sleep is pending.
C15_CancelStopsWait ==
    /\ mon.cancelled => (mon.promise # "pending" /\ ~mon.esOpen /\ ~mon.timerArmed)
    /\ poll.cancelled => poll.pc = "done"

\* C16: when generatePeaks has settled after its temporary file path was
\* assigned, on whichever path, fs.unlink was called on the file once, the
\* file is gone unless that unlink itself failed, and the call settled with
\* what its try or catch block had produced, whether the unlink failed or not.
C16_TempFileReleased ==
    (gp.pc = "done" /\ gp.tempFilePath # NoValue) =>
        /\ gp.unlinkCalls = 1
        /\ ~gp.unlinkFailed => ~gp.fileExists
        /\ gp.result = gp.pending
        /\ gp.result.outcome \in {"returned", "threw"}

\* C16, witness: the extraction returned peaks, the unlink failed, and the
\* call still returned the peaks
C16_Witness ==
    /\ gp.pc = "done"
    /\ gp.tempFilePath # NoValue
    /\ gp.unlinkFailed
    /\ gp.fileExists
    /\ gp.result.outcome = "returned"

\* C17 (as claimed): the temporary file of an invocation is its own.  No
\* invocation reads content another invocation wrote, and no invocation's
\* file is deleted by another invocation or by cleanup() between its write
\* and its read.
C17_TempFileExclusive ==
    \A c \in Calls :
        /\ conc.call[c].read \in {NoBuffer, ConcData(c)}
        /\ ~conc.call[c].lost

\* C18 (as claimed): the identifier and the size that seed a pipeline's
\* procedural fallback are never values another pipeline stored in
\* currentVideoId / currentAudioSize.
C18_SeedsAreOwn ==
    \A i \in 1 .. Len(conc.fallbacks) :
        \A d \in Calls \ {conc.fallbacks[i].for} :
            /\ conc.fallbacks[i].videoId # ConcVideoId(d)
            /\ conc.fallbacks[i].audioSize # ConcData(d).len

\* C19: once processVideoInBackground has chosen, a job with an sseUrl is
\* waited for on the event stream and not by polling, a job with only a
\* downloadUrl by polling and not on the stream, and a job with neither has
\* failed with an error and no wait was started; no job gets both waits.
C19_OneStrategyPerJob ==
    bg.pc # "idle" =>
        /\ bg.job.sseUrl # NoUrl =>
               (bg.strategy = "sse" /\ mon.subscriptions = 1 /\ poll.pc = "idle")
        /\ (bg.job.sseUrl = NoUrl /\ bg.job.downloadUrl # NoUrl) =>
               /\ bg.strategy = "poll"
               /\ poll.pc # "idle"
               /\ poll.maxAttempts = BACKGROUND_MAX_ATTEMPTS
               /\ mon.subscriptions = 0
        /\ (bg.job.sseUrl = NoUrl /\ bg.job.downloadUrl = NoUrl) =>
               /\ bg.pc = "done"
               /\ bg.status = "failed"
               /\ bg.error = MSG_NO_METHOD
               /\ mon.subscriptions = 0
               /\ poll.pc = "idle"

\* C19, witness: a job with both URLs whose event stream failed; the job
\* has ended and polling was never started
C19_Witness ==
    /\ bg.pc = "done"
    /\ bg.job.sseUrl # NoUrl
    /\ bg.job.downloadUrl # NoUrl
    /\ bg.strategy = "sse"
    /\ mon.promise = "rejected"
    /\ poll.pc = "idle"

\* C20 (as claimed): every job handle with status 'ready' has its
\* downloadUrl set, in particular the handle parseNewAPIResponse returns,
\* and every job record with status 'failed' has its failure reason set.
C20_ReadyHasAssetLocation ==
    /\ (start.job.outcome = "returned" /\ start.job.status = "ready") =>
           start.job.downloadUrl # NoUrl
    /\ bg.status = "failed" => bg.error # NoMsg

\* C21 (as claimed): for a non-empty input and a positive target length T
\* resamplePeaks returns exactly T values, value i being the input element
\* at index floor(i * len / T).
C21_ResampleAtFloorIndex ==
    (util.pc = "done" /\ util.op = "resamplePeaks" /\ Len(util.input) > 0)
    => /\ Len(util.result) = util.targetLength
       /\ \A i \in 0 .. util.targetLength - 1 :
              util.result[i + 1]
              = util.input[((i * Len(util.input)) \div util.targetLength) + 1]

\* C21 (amended): resamplePeaks returns the empty sequence for empty input
\* and, for a non-empty input and a positive target length T, exactly T
\* values; value i is the input element at index floor(i * len / T) or, only
\* where i * len is a multiple of T, possibly the element before it; the
\* index is inside the input and every value is an element of the input.
C21_ResampleAtRoundedIndex ==
    (util.pc = "done" /\ util.op = "resamplePeaks")
    => /\ Len(util.input) = 0 => util.result = <<>>
       /\ Len(util.input) > 0 =>
            /\ Len(util.result) = util.targetLength
            /\ \A i \in 0 .. util.targetLength - 1 :
                 \E k \in 0 .. Len(util.input) - 1 :
                    /\ util.result[i + 1] = util.input[k + 1]
                    /\ \/ k = (i * Len(util.input)) \div util.targetLength
                       \/ /\ k + 1 = (i * Len(util.input)) \div util.targetLength
                          /\ (i * Len(util.input)) % util.targetLength = 0

\* a call with two distinct values resampled to 98, where the rounded
\* index 49 * (2 / 98) falls below 1
C21_Witness ==
    /\ util.pc = "done" /\ util.op = "resamplePeaks"
    /\ Len(util.input) = 2 /\ util.targetLength = 98
    /\ util.input[1] # util.input[2]
    /\ util.result[50] = util.input[1]
    /\ util.result[51] = util.input[2]

\* C22: normalizePeaks keeps the length; it returns an all-zero sequence
\* unchanged; otherwise each value is the input value divided by the
\* maximum absolute value of the input, with its sign, the maximum absolute
\* value of the result is exactly 1, and normalizing the result again
\* returns the same values.
C22_NormalizeByMaxAbs ==
    (util.pc = "done" /\ util.op = "normalizePeaks")
    => LET in == util.input
           out == util.result
           top == {m \in 0 .. 2 * SCALE :
                     /\ \A i \in DOMAIN in : in[i] <= m /\ 0 - in[i] <= m
                     /\ \E i \in DOMAIN in : in[i] = m \/ 0 - in[i] = m}
       IN  /\ Len(out) = Len(in)
           /\ (\A i \in DOMAIN in : in[i] = 0) => out = in
           /\ \A m \in top \ {0} :
                /\ \A i \in DOMAIN in :
                     /\ 2 * (out[i] * m - in[i] * SCALE) <= m
                     /\ 2 * (in[i] * SCALE - out[i] * m) <= m
                     /\ (in[i] > 0) = (out[i] > 0)
                     /\ (in[i] < 0) = (out[i] < 0)
                /\ \E i \in DOMAIN out : out[i] = SCALE \/ out[i] = 0 - SCALE
                /\ \A i \in DOMAIN out : out[i] <= SCALE /\ 0 - out[i] <= SCALE
           /\ normalizePeaks(out) = out

\* a sequence whose largest magnitude is a negative value, normalized
C22_Witness ==
    /\ util.pc = "done" /\ util.op = "normalizePeaks"
    /\ util.input = <<0 - 2 * SCALE, 700>>
    /\ util.result = <<0 - SCALE, 350>>

\* C25 (as claimed): smoothPeaks returns a sequence of the same length
\* whose every value lies between the minimum and the maximum of the input.
C25_SmoothedWithinInputRange ==
    (util.pc = "done" /\ util.op = "smoothPeaks")
    => /\ Len(util.result) = Len(util.input)
       /\ \A i \in DOMAIN util.result :
              \E j, k \in DOMAIN util.input :
                  /\ FLeq(util.input[j], util.result[i])
                  /\ FLeq(util.result[i], util.input[k])

\* the exact sum of in[lo] .. in[hi], and a rounding allowance of 2^-50
RECURSIVE ExactSum(_, _, _)
ExactSum(in, lo, hi) ==
    IF hi < lo THEN FromInt(0) ELSE BigAdd(ExactSum(in, lo, hi - 1), in[hi])
Allowance == UnitAt(12 * FRAC_LIMBS - 50 + 1)
Near(a, b) == FLeq(a, BigAdd(b, Allowance)) /\ FLeq(b, BigAdd(a, Allowance))

\* C25 (amended): smoothPeaks returns a sequence of the same length in
\* which element i is the mean of the input elements at indices
\* max(0, i-1) .. min(len-1, i+1) up to the rounding of the sum and of the
\* quotient; every output lies between the minimum and the maximum of the
\* input up to that rounding, and inputs in [0,1] stay in [0,1].
C25_SmoothedMeanRounded ==
    (util.pc = "done" /\ util.op = "smoothPeaks")
    => LET in == util.input
           out == util.result
       IN  /\ Len(out) = Len(in)
           /\ \A i \in DOMAIN out :
                LET lo == IF i - 1 < 1 THEN 1 ELSE i - 1
                    hi == IF i + 1 > Len(in) THEN Len(in) ELSE i + 1
                IN  /\ Near(BigMulSmall(out[i], hi - lo + 1), ExactSum(in, lo, hi))
                    /\ \E j, k \in DOMAIN in :
                          /\ FLeq(in[j], BigAdd(out[i], Allowance))
                          /\ FLeq(out[i], BigAdd(in[k], Allowance))
                    /\ FLeq(out[i], FromInt(1))

\* three elements 0.1 smoothed: the middle one exceeds 0.1
C25_Witness ==
    /\ util.pc = "done" /\ util.op = "smoothPeaks"
    /\ Len(util.input) = 3
    /\ \A i \in 1 .. 3 : util.input[i] = FDivInt(FromInt(1), 10)
    /\ util.result[2] # util.input[2]
    /\ FLeq(util.input[2], util.result[2])

\* C23: generateRealisticPeaks returns exactly numPeaks values, all in
\* [-1, 1]; the first is 0; an element of the first 5 % (i / numPeaks < 0.05)
\* is its amplitude times progress / 0.05, one of the last 5 %
\* (i / numPeaks > 0.95) its amplitude times (1 - progress) / 0.05, both
\* clamped, and any other element its clamped amplitude.  The products are
\* compared up to the truncation of progress to 1 / SCALE.
C23_FadedAndClamped ==
    (util.pc = "done" /\ util.op = "generateRealisticPeaks")
    => LET n == util.numPeaks
           out == util.result
           pre == util.pre
           Within(v, scaledTimesN, a) ==
               \* v is scaledTimesN / n clamped, up to the truncation
               LET slack == n * ((IF a < 0 THEN 0 - a ELSE a) \div 50 + 2)
               IN  \/ v * n - scaledTimesN <= slack /\ scaledTimesN - v * n <= slack
                   \/ v = SCALE /\ scaledTimesN >= SCALE * n - slack
                   \/ v = 0 - SCALE /\ scaledTimesN <= slack - SCALE * n
       IN  /\ Len(out) = n
           /\ out[1] = 0
           /\ \A k \in 1 .. n :
                LET i == k - 1
                IN  /\ out[k] >= 0 - SCALE /\ out[k] <= SCALE
                    /\ 20 * i < n => Within(out[k], 20 * i * pre[k], pre[k])
                    /\ 20 * i > 19 * n => Within(out[k], 20 * (n - i) * pre[k], pre[k])
                    /\ (20 * i >= n /\ 20 * i <= 19 * n)
                       => out[k] = Clamp(pre[k], 0 - SCALE, SCALE)

\* a call of 40 elements whose second and last elements are faded (scaled
\* non-zero amplitudes) and one of whose middle elements is
\* clamped
C23_Witness ==
    /\ util.pc = "done" /\ util.op = "generateRealisticPeaks"
    /\ util.numPeaks = 40
    /\ util.pre[2] # 0 /\ util.result[2] # util.pre[2] /\ util.result[2] # 0
    /\ util.pre[40] # 0 /\ util.result[40] # util.pre[40] /\ util.result[40] # 0
    /\ \E k \in 3 .. 38 : util.pre[k] > SCALE /\ util.result[k] = SCALE

\* C24: the seed of a call of generateRealisticPeaks is in 0 .. 9999, and
\* the pattern family the call uses is seed mod 4, one of the four defined
\* families 0 .. 3.
C24_SeedBoundedSelectsFamily ==
    (util.pc = "done" /\ util.op = "generateRealisticPeaks")
    => /\ util.seed \in 0 .. 9999
       /\ util.patternType \in 0 .. 3
       /\ \E q \in 0 .. 2500 : util.seed = 4 * q + util.patternType

\* a call seeded from an identifier whose hash is negative and whose sum
\* with the byte length is negative too
C24_Witness ==
    /\ util.pc = "done" /\ util.op = "generateRealisticPeaks"
    /\ util.videoId = "9bZkp7q19f0"
    /\ videoIdHash(util.videoId) < 0
    /\ videoIdHash(util.videoId) + util.audioSize < 0
    /\ util.seed = 8857
    /\ util.patternType = 1

\* C26: when the cache lookup of POST /process returns an error or no row
\* the request goes on to start the conversion, and when the cache write
\* returns an error the request answers success with the audio URL the
\* conversion gave.
C26_StoreNotRequired ==
    /\ start.cache \in {"miss", "error"} =>
          \/ start.pc \in {"submitting", "cacheWrite"}
          \/ start.pc = "done" /\ start.job.outcome # "none"
    /\ start.cache = "writeError" =>
          /\ start.pc = "done"
          /\ start.job.outcome = "returned"
          /\ start.response.status = 200
          /\ start.response.audioUrl = start.job.downloadUrl
          /\ start.response.audioUrl # NoUrl

\* a request whose cache write failed, answered
C26_Witness ==
    /\ start.pc = "done" /\ start.cache = "writeError"
    /\ start.response.status = 200 /\ start.response.audioUrl = "u1"

\* C27 (as claimed): when the upstream service answers the job submission
\* with HTTP 429, POST /process answers the client with status 429.
C27_UpstreamRateLimitAnswers429 ==
    (start.pc = "done" /\ start.http.kind = "429") => start.response.status = 429

\* the fields of a peaks result that describe the audio (outcome marks, in
\* the model, that the call returned)
DataFields ==
    {"outcome", "peaks", "duration", "sampleRate", "channels", "length", "bits"}

\* C28 (as claimed): every peaks result the extraction engine returns
\* carries a provenance tag, a field beside those describing the audio, and
\* the tag of a result obtained by byte sampling differs from the tag of a
\* result of the procedural fallback.
C28_ResultsCarryProvenance ==
    LET sampled == {conc.call[c].result : c \in {d \in Calls :
                        conc.call[d].result.outcome = "returned"}}
        procedural == {conc.fallbacks[i].result : i \in 1 .. Len(conc.fallbacks)}
    IN  /\ \A r \in sampled \cup procedural : DOMAIN r \ DataFields # {}
        /\ \A r \in sampled, f \in procedural :
              \E tag \in (DOMAIN r \cap DOMAIN f) \ DataFields : r[tag] # f[tag]

\* C29: as long as no terminal event and no connection error has arrived,
\* the timer armed at subscription stays armed, whatever events are
\* received, and the stream stays open; it is due 300000 ms after
\* subscribing, and when it is the first terminal signal the monitor has
\* closed the event source and failed with the timeout.
C29_TimerIsHardCeiling ==
    /\ (mon.pc = "subscribed" /\ mon.first.kind = "none") =>
          /\ mon.timerArmed /\ mon.esOpen /\ mon.promise = "pending"
          /\ mon.now <= MONITOR_TIMEOUT_MS
    /\ mon.first.kind = "timeout" =>
          /\ mon.now = MONITOR_TIMEOUT_MS
          /\ ~mon.esOpen /\ ~mon.timerArmed
          /\ mon.promise = "rejected" /\ mon.value = MSG_SSE_TIMEOUT

\* the timer expired after non-terminal events, a malformed one among them
C29_Witness ==
    /\ mon.first.kind = "timeout"
    /\ mon.events >= 2 /\ mon.units >= 1 /\ mon.malformed >= 1
    /\ mon.promise = "rejected" /\ mon.value = MSG_SSE_TIMEOUT

\* C30 (as claimed): a 'completed' event without an asset URL is not
\* terminal: after it the promise is pending and the stream and the timer
\* are active until a terminal signal arrives; a complete event that
\* arrives next resolves the promise with its URL, and a timeout or a
\* connection error rejects it.
C30_BareCompletedNotTerminal ==
    mon.bare > 0 =>
       /\ mon.first.kind = "none" =>
             mon.promise = "pending" /\ mon.esOpen /\ mon.timerArmed
       /\ mon.first.kind = "complete" =>
             mon.promise = "resolved" /\ mon.value = mon.first.val
       /\ mon.first.kind \in {"timeout", "connerror"} =>
             mon.promise = "rejected" /\ mon.value = mon.first.val

\* C31: no probe error ends the wait early.  A wait that has ended either
\* returned the pollable URL after a probe answered with status 200 or
\* failed after maxAttempts probes, and the failure is the same whether
\* every probe threw or not and whatever the last probe's error was.
C31_ProbeErrorsNeverEndWait ==
    /\ poll.pc = "done" =>
          \/ /\ poll.result = "returned" /\ poll.value = "downloadUrl"
             /\ poll.last = "ok200"
          \/ /\ poll.result = "threw" /\ poll.value = MSG_POLL_EXHAUSTED
             /\ poll.probes = poll.maxAttempts
    /\ (poll.pc # "idle" /\ poll.last \in {"http", "transport", "timeout"}) =>
          \/ poll.pc \in {"sleeping", "probing"}
          \/ poll.probes = poll.maxAttempts

\* a wait of three probes that all threw, the last on a transport error
C31_Witness ==
    /\ poll.pc = "done" /\ poll.result = "threw"
    /\ poll.maxAttempts = 3 /\ poll.probes = 3 /\ poll.allThrew
    /\ poll.last = "transport"
    /\ poll.value = MSG_POLL_EXHAUSTED

\* C32: a probe that answers 200 ends the polling in that step: the call
\* returns the pollable URL, no time passes after the probe, and nothing
\* more happens in the loop.
C32_SuccessEndsPolling ==
    [][/\ (poll.pc = "probing" /\ poll'.result = "returned") =>
            /\ poll'.pc = "done"
            /\ poll'.value = "downloadUrl"
            /\ poll'.probes = poll.probes + 1
            /\ poll'.attempt = poll.attempt
            /\ poll'.now = poll.now
            /\ poll'.waited = poll.waited
       /\ poll.result = "returned" =>
            (poll'.probes = poll.probes /\ poll'.now = poll.now /\ poll'.pc = "done")]_vars

\* ready on the second probe, one back-off of 1000 ms before it
C32_Witness ==
    /\ poll.pc = "done" /\ poll.result = "returned"
    /\ poll.probes = 2 /\ poll.maxAttempts = 3
    /\ poll.waited = BACKOFF_BASE_MS /\ poll.now = BACKOFF_BASE_MS

\* C33: at most maxAttempts probes are issued, probe k in attempt k; the
\* loop sleeps only when a further attempt follows, so a wait whose probes
\* all threw has waited the schedule's sum over the probes before the last;
\* with maxAttempts = 0 it fails without probing.
C33_AtMostMaxAttemptsProbes ==
    /\ poll.probes <= poll.maxAttempts
    /\ poll.pc = "probing" => (poll.attempt = poll.probes + 1 /\ poll.attempt <= poll.maxAttempts)
    /\ poll.pc = "sleeping" => (poll.attempt = poll.probes /\ poll.attempt < poll.maxAttempts)
    /\ (poll.pc = "done" /\ poll.result = "threw") =>
          /\ poll.probes = poll.maxAttempts
          /\ poll.waited <= ScheduleSum(poll.maxAttempts - 1)
          /\ poll.allThrew => poll.waited = ScheduleSum(poll.maxAttempts - 1)
    /\ (poll.pc # "idle" /\ poll.maxAttempts = 0) =>
          (poll.pc = "done" /\ poll.result = "threw" /\ poll.probes = 0 /\ poll.now = 0)

\* a wait of three probes that all threw: 1000 + 2000 ms waited, none after
\* the third
C33_Witness ==
    /\ poll.pc = "done" /\ poll.result = "threw"
    /\ poll.maxAttempts = 3 /\ poll.probes = 3 /\ poll.allThrew
    /\ poll.last = "http"
    /\ poll.waited = 3 * BACKOFF_BASE_MS

\* C34 (as claimed): the monitor settles exactly once: the first of
\* complete event, failure event, connection error and timeout to arrive
\* decides the outcome, and no callback that runs afterwards changes it.
C34_FirstSignalDecidesOnce ==
    /\ [](mon.first.kind # "none" =>
            /\ mon.promise = (IF mon.first.kind = "complete" THEN "resolved" ELSE "rejected")
            /\ mon.value = mon.first.val)
    /\ [][mon.promise # "pending" =>
            (mon'.promise = mon.promise /\ mon'.value = mon.value)]_vars

\* C35: whenever the monitor has settled, the event source is closed and
\* the timer is no longer pending.
C35_SettledIsReleased ==
    mon.promise # "pending" => (~mon.esOpen /\ ~mon.timerArmed)

\* settled by the timer, after time has passed and an event was received
C35_Witness ==
    /\ mon.promise = "rejected" /\ mon.value = MSG_SSE_TIMEOUT
    /\ mon.first.kind = "timeout" /\ mon.events >= 1
    /\ ~mon.esOpen /\ ~mon.timerArmed

\* C36 (as claimed): when processVideoInBackground has ended, the job's row
\* has a terminal status; it is 'completed' only if the wait returned an
\* asset URL, and whenever the wait or the step after it threw, the row is
\* 'failed' with the message of the error; a row that is 'completed' never
\* becomes 'failed' in the same run, nor the reverse.
C36_RowDrivenToTerminal ==
    /\ []((bg.pc = "done" /\ bg.write # "inflight") =>
            /\ bg.row.status \in {"completed", "failed"}
            /\ bg.row.status = "completed" => bg.finalDownloadUrl # NoUrl
            /\ (bg.strategy = "sse" /\ mon.promise = "rejected") =>
                   (bg.row.status = "failed" /\ bg.row.error = mon.value)
            /\ (bg.strategy = "poll" /\ poll.result = "threw") =>
                   (bg.row.status = "failed" /\ bg.row.error = poll.value))
    /\ [][bg.row.status \in {"completed", "failed"} =>
            bg'.row.status = bg.row.status]_vars

\* C37: a progress update changes nothing but the metadata column: once
\* the status update has been applied the status column has the terminal
\* value the function wrote, whatever progress updates are applied before or
\* after it, and a terminal status column never changes again.
C37_ProgressKeepsTerminalStatus ==
    /\ [](bg.write = "applied" =>
            (bg.row.status = bg.status /\ bg.row.status \in {"completed", "failed"}))
    /\ [][bg.row.status \in {"completed", "failed"} =>
            bg'.row.status = bg.row.status]_vars

\* C37, witness: the wait ended while progress updates were on their way,
\* the status update was applied and a progress update was applied after it
C37_Witness ==
    /\ bg.strategy = "sse"
    /\ bg.write = "applied"
    /\ bg.late >= 1
    /\ bg.row.metadata = "progress"
    /\ bg.row.status = "failed"
    /\ mon.cbCalls >= 2

\* C38 (as claimed): once the cache lookup of POST /process has run, a
\* request whose (videoId, quality) has a cache row is answered cached: true
\* with that row's audio URL and without a job submission; an answer with
\* cached: false comes only after a submission that returned a downloadUrl;
\* an answer from the cache is the row of the quality asked for.
C38_CacheRowAnswersCached ==
    /\ (start.lookup # "-" /\ start.quality \in start.rows) =>
           /\ start.pc = "done"
           /\ start.response.status = 200
           /\ start.response.cached
           /\ start.response.audioUrl = CachedUrl(start.quality)
           /\ start.http.kind = "-"
    /\ (start.response.status = 200 /\ ~start.response.cached) =>
           /\ start.http.kind = "ok"
           /\ start.job.outcome = "returned"
           /\ start.job.downloadUrl # NoUrl
           /\ start.response.audioUrl = start.job.downloadUrl
    /\ start.response.cached =>
           (start.quality \in start.rows
            /\ start.response.audioUrl = CachedUrl(start.quality))

\* C38 (amended): the same with "when the cache lookup returns a row for
\* (videoId, quality)" in place of "when a cache row exists": a lookup the
\* store does not answer is followed by a job submission, row or no row.
C38_CacheAnswerReturnsCached ==
    /\ (start.lookup \in {"hit", "miss"} /\ start.quality \in start.rows) =>
           /\ start.pc = "done"
           /\ start.response.status = 200
           /\ start.response.cached
           /\ start.response.audioUrl = CachedUrl(start.quality)
           /\ start.http.kind = "-"
    /\ start.lookup = "-" => start.http.kind = "-"
    /\ (start.response.status = 200 /\ ~start.response.cached) =>
           /\ start.http.kind = "ok"
           /\ start.job.outcome = "returned"
           /\ start.job.downloadUrl # NoUrl
           /\ start.response.audioUrl = start.job.downloadUrl
    /\ start.response.cached =>
           (start.quality \in start.rows
            /\ start.response.audioUrl = CachedUrl(start.quality))

\* C38, witness: the video has rows for both qualities and the request for
\* 'high' is answered from the cache with the row of 'high'
C38_Witness ==
    /\ start.pc = "done"
    /\ start.quality = "high"
    /\ start.rows = Qualities
    /\ start.response.cached
    /\ start.response.audioUrl = CachedUrl("high")
    /\ start.http.kind = "-"

\* C39 (as claimed): a job submission that ended with an upstream 5xx
\* answer or with the request's timeout is answered with a status of 500 or
\* more, and POST /process answers 404 to a submission failure only when the
\* upstream answer was 404.
C39_UpstreamCategoryKept ==
    (start.pc = "done" /\ start.http.kind # "-") =>
        /\ start.http.kind \in {"500", "ECONNABORTED"} => start.response.status >= 500
        /\ start.response.status = 404 => start.http.kind = "404"

=============================================================================
